---- MODULE Spec2Model ----
(***************************************************************************)
(* The interruptible, concurrent pipeline-regression comparator of         *)
(* src/conrad_scripts/laminar_floating_point_error/process.py.             *)
(*                                                                         *)
(* Threads: the main thread (main, and signal_handler which Python runs on *)
(* the main thread between two steps of main), and the worker threads of   *)
(* the ThreadPoolExecutor, each running process_pipeline_with_index.       *)
(* A worker step is the code between two accesses to shared state          *)
(* (shutdown_event, active_pipelines, the execution service, the test      *)
(* location in object storage); what is read from the network and from     *)
(* object storage is drawn when it is read.                                *)
(***************************************************************************)
EXTENDS Integers, Sequences, FiniteSets, TLC

\* ---- bounds of the exploration
MaxItems == 2        \* WorkItems in the task list
MaxWidth == 2        \* worker threads of the pool
MaxFiles == 2        \* csv files present in both locations, per WorkItem
MaxRows == 2         \* rows of a csv file
MaxCols == 2         \* columns of a csv file
MaxSteps == 3        \* steps of a pipeline definition
MaxSignals == 1      \* deliveries of SIGINT

\* ---- program constants
CHECK_EVERY == 100   \* rows between two interrupt checks of the row loops
MAX_RETRIES == 5     \* attempts of retry_request
max_cancel_retries == 3  \* attempts of cancel_pipeline

VARIABLES
    lim,               \* the bounds this exploration draws its inputs from
    max_workers,       \* width of the worker pool
    shutdown_event,    \* threading.Event: is_set()
    active_pipelines,  \* the registry, in insertion order: thread, cache_id
    pipelines,         \* the task list loaded by main (<<>> before the load)
    results,           \* main's result slots, NoResult for None
    completed_count,
    mainpc,            \* position of main
    summary,           \* what save_results wrote (written = FALSE: no file)
    fut,               \* per WorkItem: the Future of the executor
    qhead,             \* work queue of the executor: next item to dequeue
    wk,                \* per worker thread: position and locals
    hpc,               \* position of signal_handler ("idle": not running)
    hsnap,             \* signal_handler: active_cache_ids still to cancel
    hstack,            \* invocations of signal_handler that a later signal
                       \* interrupted, innermost first: their hpc and hsnap
    signals,           \* number of SIGINT delivered
    runs,              \* execution service: cache_id -> state of the run
    cancel_requests,   \* cache_ids a DELETE request was issued for
    cancel_calls,      \* history: per cache_id, the last cancel_pipeline call
    submit_calls,      \* history: per submission, the retry_request of its POST
    validation,        \* history: per WorkItem, what the validation of its
                       \* steps gave ("none": not validated yet)
    test_output,       \* per title: objects exist under TEST_PREFIX/title
    stop_done,         \* history: futures finished when main left its loop
    s3_lock,           \* threads inside a `with s3_lock` block
    active_pipelines_lock  \* threads inside a `with active_pipelines_lock`
                       \* block (MainThread: signal_handler)

vars == <<lim, max_workers, shutdown_event, active_pipelines, pipelines, results,
          completed_count, mainpc, summary, fut, qhead, wk, hpc, hsnap,
          hstack, signals, runs, cancel_requests, cancel_calls, submit_calls,
          validation,
          test_output, stop_done, s3_lock, active_pipelines_lock>>

Workers == 1..MaxWidth
MainThread == 0      \* the thread of main and of signal_handler
Items == 1..MaxItems
Min(a, b) == IF a < b THEN a ELSE b
Max(a, b) == IF a > b THEN a ELSE b

\* cache ids: one per (WorkItem, preserve_missing_values) submission
REUSED_EXISTING_OUTPUT == -1
CacheId(i, pmv) == 2 * i - (IF pmv THEN 1 ELSE 0)
CacheIds == 1..(2 * MaxItems)

\* ------------------------------------------------------------------------
\* Records.  Absent dictionary keys are "absent" (or -1 for counts).
\* ------------------------------------------------------------------------

\* comparison_result of compare_csv_files; files_to_compare and files_examined
\* are history fields: the files present in both locations, and those whose
\* loop iteration ran to its end without being cut by the cancellation flag
NoComparison ==
    [present |-> FALSE, error |-> "absent", total_files_compared |-> 0,
     files_with_differences |-> 0, detailed_differences |-> <<>>,
     file_comparisons |-> <<>>, files_to_compare |-> 0, files_examined |-> 0]

EmptyComparison(n) ==
    [NoComparison EXCEPT !.present = TRUE, !.files_to_compare = n]

\* the result dictionary of process_pipeline / the entries main builds
NoResult ==
    [pipeline_name |-> 0, status |-> "None", is_buggy |-> "absent",
     cache_id |-> 0, pipeline_execution_status |-> "absent",
     pipeline_reused_existing |-> "absent",
     preserve_missing_values |-> "absent", total_cell_differences |-> -1,
     comparison |-> NoComparison, errors |-> <<>>]

\* process_pipeline, 913-932: result as initialised
InitialResult(entry) ==
    [NoResult EXCEPT !.pipeline_name = entry.pipeline_name,
                     !.status = "processing"]

\* process_pipeline, 904-911: returned when the flag is set on entry
SkippedAtStart(entry) ==
    [NoResult EXCEPT !.pipeline_name = entry.pipeline_name,
                     !.status = "skipped",
                     !.errors = <<"Processing interrupted before start">>]

\* the detailed_comparison of compare_csv_contents.  cell_differences is kept
\* as its length, with the number of its entries whose original_value is
\* ROW_NOT_IN_ORIGINAL and of those whose new_value is ROW_NOT_IN_NEW;
\* new_shape and original_shape are <<rows, columns>>; missing_value_diff:
\* some cell diff has original_value "" and a non-empty new_value;
\* rows_compared / rows_total and flag_at_return are history fields
NoDetail ==
    [error |-> "None", headers_match |-> "absent", cell_differences |-> -1,
     row_not_in_original |-> 0, row_not_in_new |-> 0,
     new_shape |-> <<0, 0>>, original_shape |-> <<0, 0>>,
     total_differences |-> -1, missing_value_diff |-> FALSE,
     rows_compared |-> 0, rows_total |-> 0, flag_at_return |-> FALSE]

\* an entry of file_comparisons, compare_csv_files 847-858 and 871-894; an
\* etag is "" when the metadata could not be fetched
NoFileComparison ==
    [new_etag |-> "", original_etag |-> "", etags_match |-> FALSE,
     cell_differences_count |-> -1, headers_match |-> "absent",
     comparison_error |-> "absent"]

NoFrame == [new_rows |-> 0, orig_rows |-> 0, ncols |-> 0, row_idx |-> 0]

\* a Future of the executor; index and result are the pair returned by
\* process_pipeline_with_index, raised: the call ended with an exception
NoFuture == [state |-> "NONE", raised |-> FALSE, index |-> 0,
             result |-> NoResult, yielded |-> FALSE]

\* a worker thread: idx is the index it was given, pmv the argument
\* preserve_missing_values, entered the number of entries of process_pipeline,
\* fi the position of the file loop, file_comparison the entry of
\* file_comparisons under construction, cc and det the locals of
\* compare_csv_contents
IdleWorker ==
    [pc |-> "idle", idx |-> 0, pmv |-> TRUE, entered |-> 0,
     listing_missed |-> FALSE, result |-> NoResult, comparison |-> NoComparison, fi |-> 0,
     file_comparison |-> NoFileComparison, cc |-> NoFrame, det |-> NoDetail]

NoSummary ==
    [written |-> FALSE, total_pipelines_expected |-> 0,
     total_pipelines_processed |-> 0, total_completed |-> 0,
     total_buggy_pipelines |-> 0, total_errors |-> 0,
     total_interrupted |-> 0, total_comparison_interrupted |-> 0,
     total_skipped |-> 0, was_interrupted |-> FALSE, all_results |-> <<>>]

\* ------------------------------------------------------------------------
\* Pure functions
\* ------------------------------------------------------------------------

\* a call of retry_request that was not made; response is what the call
\* returned ("none": it raised), for the POST of run_pipeline replaced by the
\* kind of its body
NoCall ==
    [failing |-> 0, attempts |-> 0, sleeps |-> 0, raised |-> FALSE,
     response |-> "none"]

\* retry_request, 208-229: the loop over attempt = 1..MAX_RETRIES for a
\* request whose first `failing` attempts fail with a RequestException; it
\* sleeps RETRY_DELAY after a failed attempt that is not the last, returns
\* the response of the first attempt that does not fail, and raises the last
\* exception after the loop
RECURSIVE retry_loop(_, _, _)
retry_loop(failing, attempt, sleeps) ==
    IF attempt > MAX_RETRIES
    THEN [failing |-> failing, attempts |-> attempt - 1, sleeps |-> sleeps,
          raised |-> TRUE, response |-> "none"]
    ELSE IF attempt > failing
    THEN [failing |-> failing, attempts |-> attempt, sleeps |-> sleeps,
          raised |-> FALSE, response |-> "2xx"]
    ELSE retry_loop(failing, attempt + 1,
                    IF attempt < MAX_RETRIES THEN sleeps + 1 ELSE sleeps)

\* a call of cancel_pipeline that was not made; response is the status code
\* of the response the call ended with ("none": it got none)
NoCancel == [attempts |-> 0, transport |-> 0, response |-> "none",
             raised |-> FALSE]

\* what the attempts of a cancel_pipeline call meet, in order: a response
\* with status 200 or another status, a transport error (RequestException,
\* also the timeout after 5 seconds), or another exception
CancelOutcomes ==
    [1..max_cancel_retries -> {"200", "500", "transport", "other"}]
Cancelled == [k \in 1..max_cancel_retries |-> "200"]

\* cancel_pipeline, 121-153: the loop over attempt = 1..max_cancel_retries;
\* it returns after the first response, goes on after a transport error, and
\* logs the last exception after the loop.  Another exception leaves the
\* loop and is logged by the outer handler (155-156).  The call never raises.
RECURSIVE cancel_loop(_, _)
cancel_loop(outcomes, attempt) ==
    IF attempt > max_cancel_retries
    THEN [attempts |-> attempt - 1, transport |-> attempt - 1,
          response |-> "none", raised |-> FALSE]
    ELSE IF outcomes[attempt] = "transport"
    THEN cancel_loop(outcomes, attempt + 1)
    ELSE [attempts |-> attempt, transport |-> attempt - 1,
          response |-> IF outcomes[attempt] = "other" THEN "none"
                       ELSE outcomes[attempt],
          raised |-> FALSE]

cancel_pipeline_escalating(outcomes) ==
    [cancel_loop(outcomes, 1) EXCEPT
        !.raised = cancel_loop(outcomes, 1).response # "200"]
cancel_pipeline(outcomes) == cancel_loop(outcomes, 1)

retry_request_once(failing) ==
    [failing |-> failing, attempts |-> 1, sleeps |-> 0,
     raised |-> failing >= 1,
     response |-> IF failing >= 1 THEN "none" ELSE "2xx"]
retry_request(failing) == retry_loop(failing, 1, 0)

\* the pipeline definitions the validation is tried on: step lists over
\* dump_to_s3 steps and other steps
StepLists ==
    UNION {[1..n -> {"dump_to_s3", "other"}] : n \in 0..MaxSteps}

\* validate_and_modify_pipeline_steps, 518-538: positions of the dump steps
dump_steps(steps) == {i \in 1..Len(steps) : steps[i] = "dump_to_s3"}

\* validate_and_modify_pipeline_steps: "ok", or the ValueError it raises
validate_and_modify_pipeline_steps(steps) ==
    IF Cardinality(dump_steps(steps)) = 0 THEN "No dump_to_s3 step found"
    ELSE IF Cardinality(dump_steps(steps)) > 1
         THEN "Multiple dump_to_s3 steps found"
    ELSE IF Len(steps) \notin dump_steps(steps)
         THEN "dump_to_s3 step is not the last step"
    ELSE "ok"

INTERRUPT_MARKER == "Comparison interrupted by user"

\* the test made of a comparison or of a detailed comparison at 1026, 1036,
\* 1057 and 1141-1143
never_interrupted(d) == FALSE
Interrupted(d) == d.error = INTERRUPT_MARKER

\* save_results, 1138-1146: the entry counts as an interrupted comparison
comparison_interrupted(r) ==
    \/ Interrupted(r.comparison)
    \/ \E k \in 1..Len(r.comparison.detailed_differences) :
           Interrupted(r.comparison.detailed_differences[k])

\* save_results, 1117: the test that selects actual_buggy
actual_buggy_not_false(r) == r.is_buggy # "False"
actual_buggy(r) == r.is_buggy = "True"

\* save_results, 1114-1203: the summary written to the output file
save_results(rs, total_expected) ==
    LET Idx == 1..Len(rs)
        buggy == {k \in Idx : actual_buggy(rs[k])}
        errors == {k \in Idx : rs[k].status = "error"}
        interrupted == {k \in Idx : rs[k].status = "interrupted"}
        skipped == {k \in Idx : rs[k].status = "skipped"}
        cmp_interrupted == {k \in Idx : comparison_interrupted(rs[k])}
    IN  [written |-> TRUE,
         total_pipelines_expected |-> total_expected,
         total_pipelines_processed |-> Len(rs),
         total_completed |->
             Cardinality({k \in Idx :
                 rs[k].status \notin {"interrupted", "skipped"}}),
         total_buggy_pipelines |-> Cardinality(buggy),
         total_errors |-> Cardinality(errors),
         total_interrupted |-> Cardinality(interrupted),
         total_comparison_interrupted |-> Cardinality(cmp_interrupted),
         total_skipped |-> Cardinality(skipped),
         was_interrupted |->
             \/ total_expected # Len(rs)
             \/ Cardinality(interrupted) > 0
             \/ Cardinality(cmp_interrupted) > 0,
         all_results |-> rs]

\* process_pipeline, 1052-1065: the loop over detailed_differences, which
\* stops at the first header mismatch; <<has_header_mismatch,
\* has_interrupted_comparisons>>
RECURSIVE scan_differences(_, _)
scan_differences(dd, seen_interrupted) ==
    IF dd = <<>> THEN <<FALSE, seen_interrupted>>
    ELSE IF Interrupted(Head(dd)) THEN scan_differences(Tail(dd), TRUE)
    ELSE IF Head(dd).headers_match = "False" THEN <<TRUE, seen_interrupted>>
    ELSE scan_differences(Tail(dd), seen_interrupted)

RECURSIVE SumDifferences(_)
SumDifferences(dd) ==
    IF dd = <<>> THEN 0
    ELSE Max(Head(dd).total_differences, 0) + SumDifferences(Tail(dd))

\* process_pipeline, 1049-1096: the tag of a completed comparison
classify_differences_first(result, comparison, pmv) ==
    LET scan == scan_differences(comparison.detailed_differences, FALSE)
        base == [result EXCEPT !.comparison = comparison,
                               !.preserve_missing_values =
                                   IF pmv THEN "True" ELSE "False"]
    IN  IF scan[2] /\ ~scan[1]
        THEN [base EXCEPT !.status = "interrupted", !.is_buggy = "None",
                  !.errors = Append(@, "Some file comparisons were interrupted")]
        ELSE IF comparison.files_with_differences > 0
        THEN [base EXCEPT !.status = "buggy", !.is_buggy = "True",
                  !.total_cell_differences =
                      SumDifferences(comparison.detailed_differences)]
        ELSE IF scan[1]
        THEN [base EXCEPT !.status = "error", !.is_buggy = "None",
                  !.errors = Append(@, "Headers mismatch in file")]
        ELSE [base EXCEPT !.status = "not_buggy", !.is_buggy = "False"]
classify_by_cell_differences(result, comparison, pmv) ==
    LET scan == scan_differences(comparison.detailed_differences, FALSE)
        base == [result EXCEPT !.comparison = comparison,
                               !.preserve_missing_values =
                                   IF pmv THEN "True" ELSE "False"]
    IN  IF scan[2] /\ ~scan[1]
        THEN [base EXCEPT !.status = "interrupted", !.is_buggy = "None",
                  !.errors = Append(@, "Some file comparisons were interrupted")]
        ELSE IF scan[1]
        THEN [base EXCEPT !.status = "error", !.is_buggy = "None",
                  !.errors = Append(@, "Headers mismatch in file")]
        ELSE IF SumDifferences(comparison.detailed_differences) > 0
        THEN [base EXCEPT !.status = "buggy", !.is_buggy = "True",
                  !.total_cell_differences =
                      SumDifferences(comparison.detailed_differences)]
        ELSE [base EXCEPT !.status = "not_buggy", !.is_buggy = "False"]
classify(result, comparison, pmv) ==
    LET scan == scan_differences(comparison.detailed_differences, FALSE)
        base == [result EXCEPT !.comparison = comparison,
                               !.preserve_missing_values =
                                   IF pmv THEN "True" ELSE "False"]
    IN  IF scan[2] /\ ~scan[1]
        THEN [base EXCEPT !.status = "interrupted", !.is_buggy = "None",
                  !.errors = Append(@, "Some file comparisons were interrupted")]
        ELSE IF scan[1]
        THEN [base EXCEPT !.status = "error", !.is_buggy = "None",
                  !.errors = Append(@, "Headers mismatch in file")]
        ELSE IF comparison.files_with_differences > 0
        THEN [base EXCEPT !.status = "buggy", !.is_buggy = "True",
                  !.total_cell_differences =
                      SumDifferences(comparison.detailed_differences)]
        ELSE [base EXCEPT !.status = "not_buggy", !.is_buggy = "False"]

\* process_pipeline, 1032-1048: the missing-value heuristic asks for a rerun
needs_rerun(comparison) ==
    \E k \in 1..Len(comparison.detailed_differences) :
        /\ ~Interrupted(comparison.detailed_differences[k])
        /\ comparison.detailed_differences[k].missing_value_diff

\* process_pipeline, 1098-1103: the except clause
error_result_untagged(result, msg) == [result EXCEPT !.errors = Append(@, msg)]
error_result(result, msg) ==
    [result EXCEPT !.status = "error", !.errors = Append(@, msg),
                   !.is_buggy = "None"]

\* ------------------------------------------------------------------------
\* Worker threads: process_pipeline_with_index, process_pipeline
\* ------------------------------------------------------------------------

mainvars == <<lim, max_workers, pipelines, results, completed_count, mainpc,
              summary, stop_done>>
handlervars == <<shutdown_event, hpc, hsnap, hstack, signals, cancel_requests,
                 cancel_calls>>
lockvars == <<s3_lock, active_pipelines_lock>>

\* Lock.acquire, as a `with` statement calls it, returns once no thread is
\* inside a block of the lock (the locks are not reentrant)
lock_free_always(lock) == TRUE
lock_free(lock) == lock = {}

\* a `with s3_lock` block of worker w around a call on s3_client (243, 255,
\* 284, 301, 730, 754, 765).  Where the exploration steps through the locks
\* (lim.locks) the worker enters the block in a step of its own and makes
\* the call and leaves the block in the next; elsewhere the block is one
\* step.
S3Wait(w) == lim.locks /\ w \notin s3_lock
S3Acquire(w) ==
    /\ lock_free(s3_lock)
    /\ s3_lock' = s3_lock \cup {w}
    /\ UNCHANGED <<wk, fut, qhead, active_pipelines, runs, submit_calls,
                   validation, test_output, mainvars, handlervars,
                   active_pipelines_lock>>
S3Release(w) == s3_lock' = s3_lock \ {w}

Entry(w) == pipelines[wk[w].idx]

\* process_pipeline, 940-955: the title of the pipeline definition the entry
\* of worker w refers to, which names its test location TEST_PREFIX/title
Title(w) == Entry(w).pipeline_spec

\* process_pipeline_with_index, 1108-1111: process_pipeline returns r, the
\* wrapper returns (index, r) and the executor finishes the Future
Return(w, r) ==
    /\ fut' = [fut EXCEPT ![wk[w].idx] =
                  [@ EXCEPT !.state = "FINISHED", !.index = wk[w].idx,
                            !.result = r]]
    /\ wk' = [wk EXCEPT ![w] = IdleWorker]

\* wait_for_pipeline_completion, 716-720: the finally clause
Unregister_skipped(w) == active_pipelines' = active_pipelines
Unregister(w) ==
    /\ lock_free(active_pipelines_lock)
    /\ active_pipelines' =
          SelectSeq(active_pipelines, LAMBDA e : e.thread_id # w)

\* ThreadPoolExecutor worker loop: dequeue the next work item; a cancelled
\* future is dropped, any other is set running and process_pipeline entered
\* with preserve_missing_values = True.  Idle threads are interchangeable:
\* the lowest-numbered one dequeues.
WorkerTake(w) ==
    /\ w <= max_workers
    /\ wk[w].pc = "idle"
    /\ \A v \in 1..(w - 1) : wk[v].pc # "idle"
    /\ qhead <= Len(pipelines)
    /\ fut[qhead].state \in {"PENDING", "CANCELLED"}
    /\ qhead' = qhead + 1
    /\ IF fut[qhead].state = "CANCELLED"
       THEN UNCHANGED <<fut, wk>>
       ELSE /\ fut' = [fut EXCEPT ![qhead].state = "RUNNING"]
            /\ wk' = [wk EXCEPT ![w] =
                         [IdleWorker EXCEPT !.pc = "start", !.idx = qhead,
                                            !.pmv = TRUE, !.entered = 1]]
    /\ UNCHANGED <<active_pipelines, runs, submit_calls, validation, test_output, mainvars, handlervars>>
    /\ UNCHANGED lockvars

\* process_pipeline, 948-950: validate_and_modify_pipeline_steps returned
\* (otherwise its ValueError goes to the except clause)
validation_passes_always(v) == TRUE
validation_passes(v) == v = "ok"

\* process_pipeline, 903-957: the flag check on entry, the download of the
\* pipeline spec and the validation of its steps.  The second entry of a
\* WorkItem downloads the spec the first entry validated.
PPStart(w) ==
    /\ wk[w].pc = "start"
    /\ IF shutdown_event /\ w \notin s3_lock
       THEN /\ Return(w, SkippedAtStart(Entry(w)))
            /\ UNCHANGED <<validation, s3_lock>>
       ELSE IF S3Wait(w) THEN S3Acquire(w)
       ELSE /\ S3Release(w)
            /\ \E spec_ok \in BOOLEAN, steps \in StepLists :
              LET r == InitialResult(Entry(w))
                  v == validate_and_modify_pipeline_steps(steps)
              IN  /\ wk[w].entered = 2 => v = validation[wk[w].idx]
                  /\ IF ~spec_ok
                     THEN /\ Return(w, error_result(r, "download failed"))
                          /\ UNCHANGED validation
                     ELSE /\ validation' = [validation EXCEPT ![wk[w].idx] = v]
                          /\ IF ~validation_passes(v)
                             THEN Return(w, error_result(r, v))
                             ELSE /\ wk' = [wk EXCEPT ![w].pc = "reuse",
                                                      ![w].result = r]
                                  /\ UNCHANGED fut
    /\ UNCHANGED <<qhead, active_pipelines, runs, submit_calls, test_output,
                   mainvars, handlervars, active_pipelines_lock>>

\* an exception raised by the first call of process_pipeline outside its try
\* block (903-932) leaves process_pipeline_with_index: the Future fails
PPRaise(w) ==
    /\ wk[w].pc = "start"
    /\ wk[w].entered = 1
    /\ w \notin s3_lock
    /\ fut' = [fut EXCEPT ![wk[w].idx] =
                  [@ EXCEPT !.state = "FINISHED", !.raised = TRUE]]
    /\ wk' = [wk EXCEPT ![w] = IdleWorker]
    /\ UNCHANGED <<qhead, active_pipelines, runs, submit_calls, validation, test_output, mainvars,
                   handlervars>>
    /\ UNCHANGED lockvars

\* check_test_output_exists, 236-268: True when the listing of the prefix
\* shows an object; False when it shows none and when a listing raises
test_output_exists_never(listing_ok, exists) == FALSE
test_output_exists(listing_ok, exists) == listing_ok /\ exists

\* process_pipeline, 958-981: check_test_output_exists, the reuse branch, the
\* flag check before the submit.  listing_missed is a history field, kept
\* until the submit: the listing raised although the test location holds
\* objects.
PPReuse(w) ==
    /\ wk[w].pc = "reuse"
    /\ IF S3Wait(w) THEN S3Acquire(w)
       ELSE
       /\ S3Release(w)
       /\ \E listing_ok \in BOOLEAN :
          LET missed == ~listing_ok /\ test_output[Title(w)] IN
          IF test_output_exists(listing_ok, test_output[Title(w)])
          THEN /\ wk' = [wk EXCEPT
                    ![w].pc = "cf_start",
                    ![w].result =
                        [@ EXCEPT !.cache_id = REUSED_EXISTING_OUTPUT,
                                  !.pipeline_execution_status = "SUCCESS",
                                  !.pipeline_reused_existing = "True"]]
               /\ UNCHANGED fut
          ELSE IF shutdown_event
          THEN Return(w, [wk[w].result EXCEPT
                    !.status = "interrupted",
                    !.errors = Append(@,
                        "Processing interrupted before pipeline execution")])
          ELSE /\ wk' = [wk EXCEPT ![w].pc = "submit",
                                   ![w].listing_missed = missed]
               /\ UNCHANGED fut
    /\ UNCHANGED <<qhead, active_pipelines, runs, submit_calls, validation,
                   test_output, mainvars, handlervars, active_pipelines_lock>>

\* run_pipeline, 594-604: the body of the response has a status_code other
\* than 0 or no cache_id, for which run_pipeline raises ValueError
application_failure_ignored(answer) == FALSE
application_failure(answer) == answer = "rejected"

\* process_pipeline, 983-991, and run_pipeline, 564-617: the POST goes
\* through retry_request, whose first `failing` attempts fail on transport.
\* When retry_request raises, so does run_pipeline, into the except clause
\* of process_pipeline.  Otherwise the response is accepted (status_code 0
\* and a cache_id) or is an application-level failure, for which
\* run_pipeline raises ValueError; or an attempt never answers (the request
\* has no timeout).
PPSubmit(w) ==
    /\ wk[w].pc = "submit"
    /\ LET cid == CacheId(wk[w].idx, wk[w].pmv) IN
       \E failing \in lim.failing, answer \in {"accepted", "rejected", "hang"} :
          LET call == retry_request(failing) IN
          /\ call.raised => answer = "accepted"
          /\ IF answer = "hang"
             THEN /\ wk' = [wk EXCEPT ![w].pc = "blocked",
                                      ![w].listing_missed = FALSE]
                  /\ UNCHANGED <<fut, runs, submit_calls>>
             ELSE /\ submit_calls' = [submit_calls EXCEPT ![cid] =
                                      IF call.raised THEN call
                                      ELSE [call EXCEPT !.response = answer]]
                  /\ IF call.raised
                     THEN /\ Return(w, error_result(wk[w].result, "HTTP error"))
                          /\ UNCHANGED runs
                     ELSE IF application_failure(answer)
                     THEN /\ Return(w, error_result(wk[w].result,
                                           "Pipeline submission failed"))
                          /\ UNCHANGED runs
                     ELSE /\ runs' = [runs EXCEPT ![cid] = "SENT"]
                          /\ wk' = [wk EXCEPT
                               ![w].pc = "register",
                               ![w].listing_missed = FALSE,
                               ![w].result = [@ EXCEPT
                                   !.cache_id = cid,
                                   !.pipeline_reused_existing = "False"]]
                          /\ UNCHANGED fut
    /\ UNCHANGED <<qhead, active_pipelines, validation, test_output, mainvars,
                   handlervars>>
    /\ UNCHANGED lockvars

\* wait_for_pipeline_completion, 626-631: register the run, inside a block
\* of active_pipelines_lock that the worker enters in a step of its own
\* where the exploration steps through the locks
PPRegister(w) ==
    /\ wk[w].pc = "register"
    /\ IF lim.locks /\ w \notin active_pipelines_lock
       THEN /\ lock_free(active_pipelines_lock)
            /\ active_pipelines_lock' = active_pipelines_lock \cup {w}
            /\ UNCHANGED <<wk, active_pipelines>>
       ELSE /\ lock_free(active_pipelines_lock \ {w})
            /\ active_pipelines_lock' = active_pipelines_lock \ {w}
            /\ active_pipelines' =
                  Append(SelectSeq(active_pipelines,
                                   LAMBDA e : e.thread_id # w),
                         [thread_id |-> w,
                          cache_id |-> wk[w].result.cache_id])
            /\ wk' = [wk EXCEPT ![w].pc = "poll"]
    /\ UNCHANGED <<fut, qhead, runs, submit_calls, validation, test_output,
                   mainvars, handlervars, s3_lock>>

\* process_pipeline, 997-1005: the result of a poll that ended INTERRUPTED
interrupted_run(result) ==
    [result EXCEPT
        !.pipeline_execution_status = "INTERRUPTED",
        !.errors = Append(@,
            "Pipeline returned error: Processing interrupted by user"),
        !.status = "interrupted"]

\* process_pipeline, 997-1018: the result of a run that ended in a status
\* other than SUCCESS; error_message is "" when the service gave none.  A
\* status the service spells INTERRUPTED is taken for the interruption of
\* the poll (1003).
failed_run(result, final_status, error_message) ==
    IF final_status = "INTERRUPTED"
    THEN [result EXCEPT
            !.pipeline_execution_status = final_status,
            !.errors = IF error_message # ""
                       THEN Append(@, "Pipeline returned error") ELSE @,
            !.status = "interrupted"]
    ELSE [result EXCEPT
            !.pipeline_execution_status = final_status,
            !.errors =
                (IF error_message # ""
                 THEN Append(@, "Pipeline returned error") ELSE @)
                \o <<IF final_status = "ERROR_WITH_SUCCESS"
                     THEN "Pipeline returned SUCCESS but with error"
                     ELSE "Pipeline execution failed with status">>,
            !.status = "error"]

\* run_pipeline, 566-583: a run in progress writes its output to the test
\* location as it goes.  Where every WorkItem has a title of its own nothing
\* reads the location before the run has ended, and the output appears with
\* the SUCCESS of the run.
PartialOutput == IF lim.shared THEN BOOLEAN ELSE {FALSE}

\* wait_for_pipeline_completion, 638-720, one iteration of the loop with the
\* finally clause of its exits, and process_pipeline, 997-1018
PPPoll(w) ==
    /\ wk[w].pc = "poll"
    /\ LET cid == wk[w].result.cache_id IN
       IF shutdown_event
       THEN /\ Unregister(w)
            /\ Return(w, interrupted_run(wk[w].result))
            /\ UNCHANGED <<runs, test_output>>
       ELSE \E resp \in {"SENT", "SUCCESS", "SUCCESS_ERROR", "FAILED",
                         "FAILED_ERROR", "INTERRUPTED", "exception",
                         "hang"} :
          CASE resp = "SENT" ->
                 /\ \E wrote \in PartialOutput :
                      test_output' = [test_output EXCEPT
                                         ![Title(w)] = @ \/ wrote]
                 /\ UNCHANGED <<wk, fut, active_pipelines, runs>>
            [] resp = "SUCCESS" ->
                 /\ Unregister(w)
                 /\ runs' = [runs EXCEPT ![cid] = "SUCCESS"]
                 /\ test_output' = [test_output EXCEPT ![Title(w)] = TRUE]
                 /\ wk' = [wk EXCEPT
                      ![w].pc = "cf_start",
                      ![w].result.pipeline_execution_status = "SUCCESS"]
                 /\ UNCHANGED fut
            [] resp = "SUCCESS_ERROR" ->
                 /\ Unregister(w)
                 /\ runs' = [runs EXCEPT ![cid] = "SUCCESS"]
                 /\ Return(w, failed_run(wk[w].result,
                                         "ERROR_WITH_SUCCESS", "error"))
                 /\ UNCHANGED test_output
            [] resp \in {"FAILED", "FAILED_ERROR"} ->
                 /\ Unregister(w)
                 /\ runs' = [runs EXCEPT ![cid] = "FAILED"]
                 /\ Return(w, failed_run(wk[w].result, "FAILED",
                        IF resp = "FAILED_ERROR" THEN "error" ELSE ""))
                 /\ UNCHANGED test_output
            [] resp = "INTERRUPTED" ->
                 /\ Unregister(w)
                 /\ runs' = [runs EXCEPT ![cid] = "FAILED"]
                 /\ Return(w, failed_run(wk[w].result, "INTERRUPTED", ""))
                 /\ UNCHANGED test_output
            [] resp = "exception" ->
                 /\ wk' = [wk EXCEPT ![w].pc = "poll_exc"]
                 /\ UNCHANGED <<fut, active_pipelines, runs, test_output>>
            [] resp = "hang" ->
                 /\ wk' = [wk EXCEPT ![w].pc = "blocked"]
                 /\ UNCHANGED <<fut, active_pipelines, runs, test_output>>
    /\ UNCHANGED <<qhead, submit_calls, validation, mainvars, handlervars>>
    /\ UNCHANGED lockvars

\* wait_for_pipeline_completion, 695-712 and 716-720: the status request
\* raised; INTERRUPTED if the flag is set by now, else the exception goes to
\* the except clause of process_pipeline
PPPollExc(w) ==
    /\ wk[w].pc = "poll_exc"
    /\ Unregister(w)
    /\ IF shutdown_event
       THEN Return(w, interrupted_run(wk[w].result))
       ELSE Return(w, error_result(wk[w].result, "HTTP error"))
    /\ UNCHANGED <<qhead, runs, submit_calls, validation, test_output, mainvars, handlervars>>
    /\ UNCHANGED lockvars

\* ------------------------------------------------------------------------
\* Worker threads: compare_csv_files and compare_csv_contents
\* ------------------------------------------------------------------------

othervars == <<fut, qhead, active_pipelines, runs, submit_calls, validation,
               test_output, mainvars, handlervars, active_pipelines_lock>>

\* the position after the file at fi of n: the next file, or the end of the
\* loop of compare_csv_files and the return to process_pipeline
AfterFile(fi, n) == IF fi + 1 > n THEN "post_cmp" ELSE "cf_file"

\* compare_csv_files, 856-857: the test that two stored checksums are equal
etags_match_never(new_etag, original_etag) == FALSE
etags_match(new_etag, original_etag) == new_etag = original_etag

\* compare_csv_files, 781-830: the flag check on entry and the listing of
\* both locations; n files are present in both
CFStart(w) ==
    /\ wk[w].pc = "cf_start"
    /\ IF shutdown_event /\ w \notin s3_lock
       THEN /\ wk' = [wk EXCEPT
                ![w].pc = "post_cmp",
                ![w].comparison =
                    [EmptyComparison(0) EXCEPT !.error = INTERRUPT_MARKER]]
            /\ UNCHANGED s3_lock
       ELSE IF S3Wait(w) THEN S3Acquire(w)
       ELSE /\ S3Release(w)
            /\ \E n \in 0..lim.files :
                 wk' = [wk EXCEPT ![w].pc = AfterFile(0, n),
                                  ![w].comparison = EmptyComparison(n),
                                  ![w].fi = 1]
    /\ UNCHANGED othervars

\* compare_csv_files, 832-864 and 896: the flag check before a file, the
\* metadata of both objects and the comparison of the etags; a file with a
\* missing etag is passed over, one with equal etags gets its entry at once
CFFile(w) ==
    /\ wk[w].pc = "cf_file"
    /\ LET c == wk[w].comparison
           next == AfterFile(wk[w].fi, c.files_to_compare)
       IN
       IF shutdown_event /\ w \notin s3_lock
       THEN /\ wk' = [wk EXCEPT ![w].pc = "post_cmp",
                                ![w].comparison.error = INTERRUPT_MARKER]
            /\ UNCHANGED s3_lock
       ELSE IF S3Wait(w) THEN S3Acquire(w)
       ELSE
       /\ S3Release(w)
       /\ \E new_etag \in {"", "a"}, original_etag \in {"", "a", "b"} :
          LET file_comparison ==
                  [NoFileComparison EXCEPT
                      !.new_etag = new_etag,
                      !.original_etag = original_etag,
                      !.etags_match = etags_match(new_etag, original_etag)]
          IN
          IF new_etag = "" \/ original_etag = ""
          THEN wk' = [wk EXCEPT
                    ![w].pc = next, ![w].fi = @ + 1,
                    ![w].comparison.files_examined = @ + 1]
          ELSE IF file_comparison.etags_match
          THEN wk' = [wk EXCEPT
                    ![w].pc = next, ![w].fi = @ + 1,
                    ![w].comparison = [@ EXCEPT
                        !.total_files_compared = @ + 1,
                        !.files_examined = @ + 1,
                        !.file_comparisons = Append(@, file_comparison)]]
          ELSE wk' = [wk EXCEPT
                    ![w].pc = "cf_detail",
                    ![w].file_comparison = file_comparison,
                    ![w].comparison = [@ EXCEPT
                        !.total_files_compared = @ + 1,
                        !.files_with_differences = @ + 1]]
    /\ UNCHANGED othervars

\* compare_csv_files, 866-879 and 896: the flag check before the detailed
\* comparison
CFDetail(w) ==
    /\ wk[w].pc = "cf_detail"
    /\ IF shutdown_event
       THEN wk' = [wk EXCEPT
                ![w].pc = AfterFile(wk[w].fi, wk[w].comparison.files_to_compare),
                ![w].fi = @ + 1,
                ![w].file_comparison = NoFileComparison,
                ![w].comparison.file_comparisons = Append(@,
                    [wk[w].file_comparison EXCEPT !.comparison_error =
                        "Detailed comparison skipped due to interrupt"])]
       ELSE wk' = [wk EXCEPT ![w].pc = "cc_start", ![w].cc = NoFrame,
                             ![w].det = NoDetail]
    /\ UNCHANGED othervars
    /\ UNCHANGED s3_lock

\* compare_csv_contents returns det to compare_csv_files, 880-896: det is
\* appended to detailed_differences and summarised in file_comparisons
CCReturn(w, det) ==
    LET d == [det EXCEPT !.flag_at_return = shutdown_event] IN
    wk' = [wk EXCEPT
        ![w].pc = AfterFile(wk[w].fi, wk[w].comparison.files_to_compare),
        ![w].fi = @ + 1,
        ![w].cc = NoFrame,
        ![w].det = NoDetail,
        ![w].file_comparison = NoFileComparison,
        ![w].comparison = [@ EXCEPT
            !.detailed_differences = Append(@, d),
            !.files_examined = @ + (IF Interrupted(d) THEN 0 ELSE 1),
            !.file_comparisons = Append(@,
                [wk[w].file_comparison EXCEPT
                    !.cell_differences_count = Max(d.total_differences, 0),
                    !.headers_match =
                        IF d.headers_match = "absent" THEN "True"
                        ELSE d.headers_match,
                    !.comparison_error =
                        IF d.error # "None" THEN d.error ELSE "absent"])]]

\* compare_csv_contents, 330-335 and 493-498: the result of the flag check
\* on entry and of an exception caught while the flag is set
interrupted_early == [NoDetail EXCEPT !.error = INTERRUPT_MARKER]

\* compare_csv_contents, 383-388, 417-423, 429-437, 453-461: the partial
\* result of a checkpoint that saw the flag
interrupted_partial_unmarked(det) ==
    [det EXCEPT !.total_differences = det.cell_differences]
interrupted_partial(det) ==
    [det EXCEPT !.error = INTERRUPT_MARKER,
                !.total_differences = det.cell_differences]

\* compare_csv_contents, 473-489: the result after the last row
complete(det) == [det EXCEPT !.total_differences = det.cell_differences]

\* compare_csv_contents, 327-335: the flag check on entry
CCStart(w) ==
    /\ wk[w].pc = "cc_start"
    /\ IF shutdown_event
       THEN CCReturn(w, interrupted_early)
       ELSE wk' = [wk EXCEPT ![w].pc = "dl_new"]
    /\ UNCHANGED othervars
    /\ UNCHANGED s3_lock

\* download_csv_from_s3, 296-302: the flag check before the download (its
\* exception is caught at 491 with the flag set) and get_object, which may
\* raise
CCDownload(w) ==
    /\ wk[w].pc \in {"dl_new", "dl_orig"}
    /\ IF shutdown_event /\ w \notin s3_lock
       THEN /\ CCReturn(w, interrupted_early)
            /\ UNCHANGED s3_lock
       ELSE IF S3Wait(w) THEN S3Acquire(w)
       ELSE /\ S3Release(w)
            /\ \E ok \in BOOLEAN :
                 wk' = [wk EXCEPT ![w].pc =
                           IF ~ok THEN "cc_exc"
                           ELSE IF @ = "dl_new" THEN "rd_new" ELSE "rd_orig"]
    /\ UNCHANGED othervars

\* download_csv_from_s3, 305-313: the flag check after the download and
\* read_csv, which may raise; the frame has rows rows (and, for the new file,
\* ncols columns)
CCRead(w) ==
    /\ wk[w].pc \in {"rd_new", "rd_orig"}
    /\ IF shutdown_event
       THEN CCReturn(w, interrupted_early)
       ELSE \/ wk' = [wk EXCEPT ![w].pc = "cc_exc"]
            \/ /\ wk[w].pc = "rd_new"
               /\ \E rows \in 0..lim.rows, ncols \in 1..lim.cols :
                     wk' = [wk EXCEPT ![w].pc = "dl_orig",
                                      ![w].cc.new_rows = rows,
                                      ![w].cc.ncols = ncols]
            \/ /\ wk[w].pc = "rd_orig"
               /\ \E rows \in 0..lim.rows :
                     wk' = [wk EXCEPT ![w].pc = "cc_hdr",
                                      ![w].cc.orig_rows = rows]
    /\ UNCHANGED othervars
    /\ UNCHANGED s3_lock

\* compare_csv_contents, 491-505, with download_csv_from_s3, 314-318: an
\* exception of the download or of the parse is caught; the flag decides
\* between the interrupt marker and the message of the exception
CCExc(w) ==
    /\ wk[w].pc = "cc_exc"
    /\ IF shutdown_event
       THEN CCReturn(w, interrupted_early)
       ELSE CCReturn(w, [NoDetail EXCEPT !.error = "exception"])
    /\ UNCHANGED othervars
    /\ UNCHANGED s3_lock

\* the position of compare_csv_contents once row_idx rows of the overlap are
\* compared: the next row, or the check before the extra rows
AfterRow(row_idx, cc) ==
    IF row_idx < Min(cc.new_rows, cc.orig_rows) THEN "cc_row"
    ELSE "cc_pre_extra"

\* compare_csv_contents, 341-378: the comparison of the headers
CCHeader(w) ==
    /\ wk[w].pc = "cc_hdr"
    /\ LET cc == wk[w].cc
           det == [NoDetail EXCEPT
                      !.headers_match = "True", !.cell_differences = 0,
                      !.new_shape = <<cc.new_rows, cc.ncols>>,
                      !.original_shape = <<cc.orig_rows, cc.ncols>>,
                      !.rows_total = Max(cc.new_rows, cc.orig_rows)]
       IN  \E same_headers \in BOOLEAN :
             IF ~same_headers
             THEN CCReturn(w, [det EXCEPT !.headers_match = "False",
                                  !.error = "Headers do not match"])
             ELSE wk' = [wk EXCEPT ![w].pc = AfterRow(0, cc),
                                   ![w].cc.row_idx = 0,
                                   ![w].det = det]
    /\ UNCHANGED othervars
    /\ UNCHANGED s3_lock

\* compare_csv_contents, 382, 428, 452: the flag check at the start of a row,
\* made at every CHECK_EVERY-th row index only
row_checkpoint_never(row_idx) == FALSE
row_checkpoint(row_idx) == row_idx % CHECK_EVERY = 0 /\ shutdown_event

\* compare_csv_contents, 380-414: one row of the overlap; diffs of its cells
\* differ, missing: one of them has an empty original and a non-empty new
\* value
CCRow(w) ==
    /\ wk[w].pc = "cc_row"
    /\ LET cc == wk[w].cc
           det == wk[w].det
       IN
       IF row_checkpoint(cc.row_idx)
       THEN CCReturn(w, interrupted_partial(det))
       ELSE \E diffs \in 0..cc.ncols, missing \in BOOLEAN :
              /\ missing => diffs > 0
              /\ wk' = [wk EXCEPT
                    ![w].pc = AfterRow(cc.row_idx + 1, cc),
                    ![w].cc.row_idx = @ + 1,
                    ![w].det = [@ EXCEPT
                        !.cell_differences = @ + diffs,
                        !.missing_value_diff = @ \/ missing,
                        !.rows_compared = @ + 1]]
    /\ UNCHANGED othervars
    /\ UNCHANGED s3_lock

\* compare_csv_contents, 416-427, 450-451, 473-489: the flag check before the
\* extra rows
CCPreExtra(w) ==
    /\ wk[w].pc = "cc_pre_extra"
    /\ LET cc == wk[w].cc IN
       IF shutdown_event
       THEN CCReturn(w, interrupted_partial(wk[w].det))
       ELSE IF cc.new_rows = cc.orig_rows
       THEN CCReturn(w, complete(wk[w].det))
       ELSE wk' = [wk EXCEPT ![w].pc = "cc_extra",
                             ![w].cc.row_idx = Min(cc.new_rows, cc.orig_rows)]
    /\ UNCHANGED othervars
    /\ UNCHANGED s3_lock

\* compare_csv_contents, 439-447 and 463-471: the entries appended for one
\* extra row, one per column, against ROW_NOT_IN_ORIGINAL for a row of the
\* new file and against ROW_NOT_IN_NEW for a row of the original
extra_row_skipped(det, cc) == [det EXCEPT !.rows_compared = @ + 1]
extra_row(det, cc) ==
    [det EXCEPT
        !.cell_differences = @ + cc.ncols,
        !.row_not_in_original =
            @ + (IF cc.new_rows > cc.orig_rows THEN cc.ncols ELSE 0),
        !.row_not_in_new =
            @ + (IF cc.orig_rows > cc.new_rows THEN cc.ncols ELSE 0),
        !.rows_compared = @ + 1]

\* compare_csv_contents, 425-471: one extra row, of the new file or of the
\* original (one of whose cells may be empty)
CCExtra(w) ==
    /\ wk[w].pc = "cc_extra"
    /\ LET cc == wk[w].cc
           det == wk[w].det
       IN
       IF row_checkpoint(cc.row_idx)
       THEN CCReturn(w, interrupted_partial(det))
       ELSE \E missing \in BOOLEAN :
              /\ missing => cc.orig_rows > cc.new_rows
              /\ LET d == [extra_row(det, cc) EXCEPT
                              !.missing_value_diff = @ \/ missing]
                 IN  IF cc.row_idx + 1 < Max(cc.new_rows, cc.orig_rows)
                     THEN wk' = [wk EXCEPT ![w].cc.row_idx = @ + 1,
                                           ![w].det = d]
                     ELSE CCReturn(w, complete(d))
    /\ UNCHANGED othervars
    /\ UNCHANGED s3_lock

\* process_pipeline, 1033 and 1048: the rerun is asked for only by a call
\* with preserve_missing_values True, while the flag is clear
rerun_wanted_at_any_level(pmv, flag, comparison) ==
    ~flag /\ needs_rerun(comparison)
rerun_wanted(pmv, flag, comparison) ==
    pmv /\ ~flag /\ needs_rerun(comparison)

\* process_pipeline, 1025-1105: the check for an interrupted comparison, the
\* missing-value rerun (a recursive call whose result is returned as it is)
\* and the classification
PPPostCompare(w) ==
    /\ wk[w].pc = "post_cmp"
    /\ LET c == wk[w].comparison IN
       IF Interrupted(c)
       THEN Return(w, [wk[w].result EXCEPT
                !.status = "interrupted",
                !.errors = Append(@, "File comparison interrupted by user"),
                !.comparison = c])
       ELSE IF rerun_wanted(wk[w].pmv, shutdown_event, c)
       THEN /\ wk' = [wk EXCEPT ![w] =
                  [IdleWorker EXCEPT !.pc = "start", !.idx = wk[w].idx,
                                     !.pmv = FALSE,
                                     !.entered = wk[w].entered + 1]]
            /\ UNCHANGED fut
       ELSE Return(w, classify(wk[w].result, c, wk[w].pmv))
    /\ UNCHANGED <<qhead, active_pipelines, runs, submit_calls, validation,
                   test_output, mainvars, handlervars>>
    /\ UNCHANGED lockvars

\* ------------------------------------------------------------------------
\* The main thread: main and signal_handler
\* ------------------------------------------------------------------------

workervars == <<qhead, wk, active_pipelines, runs, submit_calls, validation>>

\* main, 1262-1264: the slot a returned (index, result) is stored in
result_slot_by_completion(index, count) == count + 1
result_slot(index, count) == index

\* main, 1274-1301: the entry built for a Future that raised
failed_future_entry(index) ==
    [NoResult EXCEPT !.pipeline_name = pipelines[index].pipeline_name,
                     !.status = "error",
                     !.errors = <<"Thread execution error">>]

\* main, 1311-1321: the entry built for a slot that is still None
skipped_entry(index) ==
    [NoResult EXCEPT
        !.pipeline_name = pipelines[index].pipeline_name,
        !.status = "skipped",
        !.errors = <<"Pipeline was not processed due to interruption">>]

\* main, 1308-1321: every None slot becomes a skipped entry
fill_skipped(rs) ==
    [i \in 1..Len(rs) |->
        IF rs[i].status = "None" THEN skipped_entry(i) ELSE rs[i]]

\* load_potentially_buggy_pipelines: the pipeline definitions the n entries
\* of a task list refer to, a definition being named by the first entry
\* that refers to it.  The list holds one entry per affected sheet of a
\* pipeline: the entries refer to a definition each, or (lim.shared) all to
\* the same one.
PipelineSpecs(n) ==
    IF lim.shared THEN {[i \in 1..n |-> 1]} ELSE {[i \in 1..n |-> i]}

\* main, 1224-1233: the task list is loaded (n entries, each an object with
\* its pipeline_name) and the result slots allocated, or the load raises and
\* main returns.  The test locations hold what earlier runs left there.
MainLoad ==
    /\ mainpc = "load"
    /\ hpc = "idle"
    /\ \/ /\ mainpc' = "abort"
          /\ UNCHANGED <<pipelines, results, test_output>>
       \/ \E n \in 0..lim.items :
            /\ \E spec \in PipelineSpecs(n) :
                 /\ pipelines' = [i \in 1..n |->
                       [pipeline_name |-> i, pipeline_spec |-> spec[i]]]
                 /\ results' = [i \in 1..n |-> NoResult]
                 /\ \E t \in [1..n -> lim.output] :
                      /\ \A i \in 1..n : t[i] => spec[i] = i
                      /\ test_output' = t
            /\ mainpc' = "submit"
    /\ UNCHANGED <<lim, max_workers, completed_count, summary, stop_done,
                   fut, workervars, handlervars>>
    /\ UNCHANGED lockvars

\* main, 1226-1230: the except clause around the load returns from main, so
\* what follows it (1233-1407) runs only when the load returned
load_failure_logged_only(pc) == pc \in {"submit", "abort"}
load_returned(pc) == pc = "submit"

\* main, 1237-1242: every entry is submitted to the executor
MainSubmit ==
    /\ load_returned(mainpc)
    /\ hpc = "idle"
    /\ fut' = [i \in Items |->
                 IF i <= Len(pipelines)
                 THEN [NoFuture EXCEPT !.state = "PENDING"] ELSE NoFuture]
    /\ mainpc' = "wait"
    /\ UNCHANGED <<lim, max_workers, pipelines, results, completed_count,
                   summary, stop_done, test_output, workervars, handlervars>>
    /\ UNCHANGED lockvars

Finished == {i \in 1..Len(pipelines) : fut[i].state = "FINISHED"}

\* main, 1245-1302, one iteration of the loop over as_completed: a finished
\* Future not handed out yet is handed out.  With the flag set every Future
\* that is not done is cancelled (only a pending one can be) and, after the
\* sleep, the loop is left.  Otherwise future.result() returns (index,
\* result), stored in the slot of index, or raises and an error entry is
\* stored in the slot of future_to_index[future].
MainLoop ==
    /\ mainpc = "wait"
    /\ hpc = "idle"
    /\ \E i \in Finished :
         /\ ~fut[i].yielded
         /\ IF shutdown_event
            THEN /\ fut' = [j \in Items |->
                              IF fut[j].state = "PENDING"
                              THEN [fut[j] EXCEPT !.state = "CANCELLED"]
                              ELSE [fut[j] EXCEPT !.yielded = (@ \/ j = i)]]
                 /\ stop_done' = Finished
                 /\ mainpc' = "exit"
                 /\ UNCHANGED <<results, completed_count>>
            ELSE /\ fut' = [fut EXCEPT ![i].yielded = TRUE]
                 /\ results' =
                      IF ~fut[i].raised
                      THEN [results EXCEPT
                              ![result_slot(fut[i].index, completed_count)] =
                                  fut[i].result]
                      ELSE [results EXCEPT ![i] = failed_future_entry(i)]
                 /\ completed_count' = completed_count + 1
                 /\ UNCHANGED <<stop_done, mainpc>>
    /\ UNCHANGED <<lim, max_workers, pipelines, summary, test_output,
                   workervars, handlervars>>
    /\ UNCHANGED lockvars

\* main, 1245: as_completed ends once every Future was handed out
MainLoopEnd ==
    /\ mainpc = "wait"
    /\ hpc = "idle"
    /\ \A i \in 1..Len(pipelines) : fut[i].yielded
    /\ mainpc' = "exit"
    /\ stop_done' = Finished
    /\ UNCHANGED <<lim, max_workers, pipelines, results, completed_count,
                   summary, fut, test_output, workervars, handlervars>>
    /\ UNCHANGED lockvars

\* main, 1237 and 1308-1327: leaving the with block is
\* executor.shutdown(wait=True), which returns once the queue is drained and
\* every worker thread has ended; then the None slots are filled in as
\* skipped and save_results writes the summary
MainSave ==
    /\ mainpc = "exit"
    /\ hpc = "idle"
    /\ qhead > Len(pipelines)
    /\ \A w \in Workers : wk[w].pc = "idle"
    /\ results' = fill_skipped(results)
    /\ summary' = save_results(results', Len(pipelines))
    /\ mainpc' = "done"
    /\ UNCHANGED <<lim, max_workers, pipelines, completed_count, stop_done,
                   fut, test_output, workervars, handlervars>>
    /\ UNCHANGED lockvars

\* signal_handler, 159-166: SIGINT is delivered to the main thread while main
\* or an earlier invocation of signal_handler runs; the interpreter calls the
\* handler on top of what was running, which goes on when the handler has
\* returned.  The handler sets the flag.
Signal ==
    /\ signals < lim.signals
    /\ mainpc \notin {"done", "abort"}
    /\ signals' = signals + 1
    /\ shutdown_event' = TRUE
    /\ hstack' = IF hpc = "idle" THEN hstack
                 ELSE <<[hpc |-> hpc, hsnap |-> hsnap]>> \o hstack
    /\ hpc' = "snapshot"
    /\ hsnap' = <<>>
    /\ UNCHANGED <<cancel_requests, cancel_calls, fut, test_output, workervars, mainvars,
                   lockvars>>

\* signal_handler returns: the invocation it interrupted, if any, goes on
HandlerReturn ==
    /\ hpc' = IF hstack = <<>> THEN "idle" ELSE Head(hstack).hpc
    /\ hsnap' = IF hstack = <<>> THEN <<>> ELSE Head(hstack).hsnap
    /\ hstack' = IF hstack = <<>> THEN <<>> ELSE Tail(hstack)

\* signal_handler, 177-179 and 184-187: the registry is copied inside a block
\* of active_pipelines_lock; with nothing to cancel the handler returns
HandlerCopy ==
    IF active_pipelines = <<>>
    THEN HandlerReturn
    ELSE /\ hsnap' = [k \in 1..Len(active_pipelines) |->
                         active_pipelines[k].cache_id]
         /\ hpc' = "cancel"
         /\ UNCHANGED hstack

\* signal_handler, 168-179: the two blocks of active_pipelines_lock, the first
\* around the logging of the registry, the second around its copy.  Where the
\* exploration steps through the locks the handler enters and leaves each
\* block in a step of its own; elsewhere both blocks are one step.
HandlerSnapshot ==
    /\ hpc \in {"snapshot", "logging", "relock", "copying"}
    /\ IF ~lim.locks
       THEN /\ lock_free(active_pipelines_lock)
            /\ HandlerCopy
            /\ UNCHANGED active_pipelines_lock
       ELSE CASE hpc = "snapshot" ->
                   /\ lock_free(active_pipelines_lock)
                   /\ active_pipelines_lock' =
                         active_pipelines_lock \cup {MainThread}
                   /\ hpc' = "logging"
                   /\ UNCHANGED <<hsnap, hstack>>
              [] hpc = "logging" ->
                   /\ active_pipelines_lock' =
                         active_pipelines_lock \ {MainThread}
                   /\ hpc' = "relock"
                   /\ UNCHANGED <<hsnap, hstack>>
              [] hpc = "relock" ->
                   /\ lock_free(active_pipelines_lock)
                   /\ active_pipelines_lock' =
                         active_pipelines_lock \cup {MainThread}
                   /\ hpc' = "copying"
                   /\ UNCHANGED <<hsnap, hstack>>
              [] hpc = "copying" ->
                   /\ active_pipelines_lock' =
                         active_pipelines_lock \ {MainThread}
                   /\ HandlerCopy
    /\ UNCHANGED <<shutdown_event, signals, cancel_requests, cancel_calls, fut,
                   test_output,
                   workervars, mainvars, s3_lock>>

\* signal_handler, 181-187, and cancel_pipeline, 111-156: a DELETE request is
\* issued for the next copied cache_id; it stops the run if it gets through
\* while the run is in progress.  The handler returns after the last one.
HandlerCancel ==
    /\ hpc = "cancel"
    /\ \E outcomes \in lim.cancel :
         LET cid == Head(hsnap)
             call == cancel_pipeline(outcomes)
         IN
         /\ cancel_requests' = cancel_requests \cup {cid}
         /\ cancel_calls' = [cancel_calls EXCEPT ![cid] = call]
         /\ \E delivered \in BOOLEAN :
              runs' = IF delivered /\ runs[cid] = "SENT"
                      THEN [runs EXCEPT ![cid] = "CANCELLED"] ELSE runs
         /\ IF call.raised \/ Tail(hsnap) = <<>>
            THEN HandlerReturn
            ELSE /\ hsnap' = Tail(hsnap)
                 /\ UNCHANGED <<hpc, hstack>>
    /\ UNCHANGED <<shutdown_event, signals, fut, test_output, qhead, wk,
                   active_pipelines, submit_calls, validation, mainvars,
                   lockvars>>

\* ------------------------------------------------------------------------
\* Specifications
\* ------------------------------------------------------------------------

InitState ==
    /\ shutdown_event = FALSE
    /\ active_pipelines = <<>>
    /\ pipelines = <<>>
    /\ results = <<>>
    /\ completed_count = 0
    /\ mainpc = "load"
    /\ summary = NoSummary
    /\ fut = [i \in Items |-> NoFuture]
    /\ qhead = 1
    /\ wk = [w \in Workers |-> IdleWorker]
    /\ hpc = "idle"
    /\ hsnap = <<>>
    /\ signals = 0
    /\ runs = [c \in CacheIds |-> "none"]
    /\ cancel_requests = {}
    /\ cancel_calls = [c \in CacheIds |-> NoCancel]
    /\ submit_calls = [c \in CacheIds |-> NoCall]
    /\ validation = [i \in Items |-> "none"]
    /\ test_output = <<>>
    /\ stop_done = {}
    /\ hstack = <<>>
    /\ s3_lock = {}
    /\ active_pipelines_lock = {}

\* the orchestrator with up to MaxItems WorkItems and up to MaxWidth workers,
\* each WorkItem with an empty test location at the start and at most one
\* one-row, one-column file to compare
Init ==
    /\ InitState
    /\ lim = [items |-> MaxItems, files |-> 1, rows |-> 1, cols |-> 1,
              output |-> {FALSE}, failing |-> {0, MAX_RETRIES},
              locks |-> FALSE, signals |-> MaxSignals,
              cancel |-> {Cancelled}, shared |-> FALSE]
    /\ max_workers \in 1..MaxWidth

\* one WorkItem and one worker, with up to MaxFiles one-row, one-column files
InitItem ==
    /\ InitState
    /\ lim = [items |-> 1, files |-> MaxFiles, rows |-> 1, cols |-> 1,
              output |-> BOOLEAN, failing |-> 0..(MAX_RETRIES + 1),
              locks |-> FALSE, signals |-> MaxSignals,
              cancel |-> {Cancelled}, shared |-> FALSE]
    /\ max_workers = 1

\* one WorkItem and one worker, with one file of up to MaxRows rows and
\* MaxCols columns
InitFile ==
    /\ InitState
    /\ lim = [items |-> 1, files |-> 1, rows |-> MaxRows, cols |-> MaxCols,
              output |-> BOOLEAN, failing |-> {0, MAX_RETRIES},
              locks |-> FALSE, signals |-> MaxSignals,
              cancel |-> {Cancelled}, shared |-> FALSE]
    /\ max_workers = 1

\* two WorkItems and two workers, with the steps through the locks
InitLocks ==
    /\ InitState
    /\ lim = [items |-> MaxItems, files |-> 1, rows |-> 1, cols |-> 1,
              output |-> {FALSE}, failing |-> {0},
              locks |-> TRUE, signals |-> MaxSignals,
              cancel |-> {Cancelled}, shared |-> FALSE]
    /\ max_workers = MaxWidth

\* two WorkItems and two workers, the WorkItems referring to the same
\* pipeline definition
InitTitles ==
    /\ InitState
    /\ lim = [items |-> MaxItems, files |-> 1, rows |-> 1, cols |-> 1,
              output |-> {FALSE}, failing |-> {0},
              locks |-> FALSE, signals |-> MaxSignals,
              cancel |-> {Cancelled}, shared |-> TRUE]
    /\ max_workers = MaxWidth

\* two WorkItems and two workers, with every course a call of
\* cancel_pipeline can take
InitCancel ==
    /\ InitState
    /\ lim = [items |-> MaxItems, files |-> 1, rows |-> 1, cols |-> 1,
              output |-> {FALSE}, failing |-> {0},
              locks |-> FALSE, signals |-> MaxSignals,
              cancel |-> CancelOutcomes, shared |-> FALSE]
    /\ max_workers = MaxWidth

\* one WorkItem and one worker, with the steps through the locks and one
\* more delivery of SIGINT, which can interrupt the handler of the one before
InitSignals ==
    /\ InitState
    /\ lim = [items |-> 1, files |-> 1, rows |-> 1, cols |-> 1,
              output |-> {FALSE}, failing |-> {0},
              locks |-> TRUE, signals |-> MaxSignals + 1,
              cancel |-> {Cancelled}, shared |-> FALSE]
    /\ max_workers = 1

WorkerStep(w) ==
    \/ WorkerTake(w)
    \/ PPStart(w)
    \/ PPRaise(w)
    \/ PPReuse(w)
    \/ PPSubmit(w)
    \/ PPRegister(w)
    \/ PPPoll(w)
    \/ PPPollExc(w)
    \/ CFStart(w)
    \/ CFFile(w)
    \/ CFDetail(w)
    \/ CCStart(w)
    \/ CCDownload(w)
    \/ CCRead(w)
    \/ CCExc(w)
    \/ CCHeader(w)
    \/ CCRow(w)
    \/ CCPreExtra(w)
    \/ CCExtra(w)
    \/ PPPostCompare(w)

MainStep ==
    \/ MainLoad
    \/ MainSubmit
    \/ MainLoop
    \/ MainLoopEnd
    \/ MainSave

HandlerStep == HandlerSnapshot \/ HandlerCancel

Next ==
    \/ MainStep
    \/ Signal
    \/ HandlerStep
    \/ \E w \in Workers : WorkerStep(w)

Spec == Init /\ [][Next]_vars

SpecItem == InitItem /\ [][Next]_vars

SpecFile == InitFile /\ [][Next]_vars

SpecLocks == InitLocks /\ [][Next]_vars

SpecSignals == InitSignals /\ [][Next]_vars
SpecCancel == InitCancel /\ [][Next]_vars
SpecTitles == InitTitles /\ [][Next]_vars

\* SpecItem with the scheduling of the threads: the main thread, the signal
\* handler and every worker thread take their next step when they have one.
\* A worker blocked in a request without timeout has none.
FairSpec ==
    /\ InitItem
    /\ [][Next]_vars
    /\ WF_vars(MainStep)
    /\ WF_vars(HandlerStep)
    /\ \A w \in Workers : WF_vars(WorkerStep(w))

\* ------------------------------------------------------------------------
\* Properties
\* ------------------------------------------------------------------------

\* C1: order preservation.  Whatever the pool width and the completion
\* order, a filled slot i of the result list carries the pipeline_name of
\* pipelines[i] (a returned result, the error entry of a failed future, a
\* slot filled in as skipped), and when main stops every slot is filled.
C1_OrderPreservation ==
    /\ Len(results) = Len(pipelines)
    /\ \A i \in 1..Len(results) :
          /\ results[i].status # "None" =>
                 results[i].pipeline_name = pipelines[i].pipeline_name
          /\ mainpc = "done" => results[i].status # "None"

\* the second WorkItem completed and was recorded while the first is still
\* being processed
C1_Witness ==
    /\ mainpc = "wait"
    /\ Len(results) = 2
    /\ results[2].status \in {"buggy", "not_buggy", "error"}
    /\ results[1].status = "None"
    /\ fut[1].state = "RUNNING"

\* C2 as stated: if the flag is set by the time compare_csv_contents returns
\* and not every row of both files was examined, the result carries the
\* marker "Comparison interrupted by user".
C2_MarkerWheneverCutShort ==
    \A i \in Items, w \in Workers :
      LET dd == fut[i].result.comparison.detailed_differences
                  \o wk[w].comparison.detailed_differences
      IN  \A k \in 1..Len(dd) :
            (/\ dd[k].flag_at_return
             /\ \/ dd[k].headers_match = "absent"
                \/ dd[k].rows_compared < dd[k].rows_total)
            => dd[k].error = INTERRUPT_MARKER

\* C2, amended: a result of compare_csv_contents without error (and so with
\* headers_match true) is returned only after all overlapping and all extra
\* rows were compared, with every cell difference found counted; and the
\* marker is returned only when the flag is set.
C2_NoCleanPartialResult ==
    \A i \in Items, w \in Workers :
      LET dd == fut[i].result.comparison.detailed_differences
                  \o wk[w].comparison.detailed_differences
      IN  \A k \in 1..Len(dd) :
            /\ dd[k].error = "None" =>
                  /\ dd[k].headers_match = "True"
                  /\ dd[k].rows_compared = dd[k].rows_total
                  /\ dd[k].total_differences = dd[k].cell_differences
            /\ dd[k].error = INTERRUPT_MARKER => dd[k].flag_at_return

\* a cell comparison stopped by the flag after its overlapping rows and
\* before its extra rows
C2_Witness ==
    \E w \in Workers :
      \E k \in 1..Len(wk[w].comparison.detailed_differences) :
        LET d == wk[w].comparison.detailed_differences[k] IN
        /\ d.error = INTERRUPT_MARKER
        /\ d.headers_match = "True"
        /\ d.rows_compared >= 1
        /\ d.rows_compared < d.rows_total

\* C3: a result with status not_buggy, as returned by a worker or as stored
\* by main, stands for a comparison in which no file loop iteration and no
\* cell comparison was stopped by the flag: every file present in both
\* locations was examined and nothing carries the interrupt marker.
C3_NotBuggyIsComplete ==
    \A i \in Items :
      \A r \in {fut[i].result} \cup {results[k] : k \in 1..Len(results)} :
        r.status = "not_buggy" =>
          /\ r.comparison.present
          /\ r.comparison.files_examined = r.comparison.files_to_compare
          /\ r.comparison.error # INTERRUPT_MARKER
          /\ \A k \in 1..Len(r.comparison.detailed_differences) :
                r.comparison.detailed_differences[k].error # INTERRUPT_MARKER

\* the interrupt arrived while the WorkItem was processed, after the last
\* checkpoint of its comparison, and the result is not_buggy
C3_Witness ==
    /\ fut[1].state = "FINISHED"
    /\ fut[1].result.status = "not_buggy"
    /\ fut[1].result.comparison.files_to_compare = MaxFiles
    /\ shutdown_event
    /\ stop_done = {}

\* C4: when main has stopped, every WorkItem whose worker had returned a
\* result (buggy, not_buggy, error or interrupted) by the time main left its
\* completion loop has that result in its slot; such a slot is not skipped.
C4_ReturnedResultKept ==
    mainpc = "done" =>
        \A i \in stop_done :
            (/\ ~fut[i].raised
             /\ fut[i].result.status \in
                    {"buggy", "not_buggy", "error", "interrupted"})
            => results[i] = fut[i].result

\* C5: in a written summary was_interrupted is true exactly when some entry
\* is interrupted or skipped, or there are fewer results than inputs.
C5_WasInterruptedIff ==
    summary.written =>
        (summary.was_interrupted <=>
            \/ \E k \in 1..Len(summary.all_results) :
                  summary.all_results[k].status \in {"interrupted", "skipped"}
            \/ Len(summary.all_results) < summary.total_pipelines_expected)

\* C6: every result a worker returned and every filled slot of the result
\* list carries one of the five tags, never "processing", and has is_buggy
\* true exactly when the tag is buggy; when main stops every slot is filled.
C6_ExactlyOneTag ==
    /\ \A i \in Items :
         \A r \in {fut[i].result} \cup {results[k] : k \in 1..Len(results)} :
           r.status # "None" =>
             /\ r.status \in {"buggy", "not_buggy", "error", "interrupted",
                              "skipped"}
             /\ r.is_buggy = "True" <=> r.status = "buggy"
    /\ \A i \in 1..Len(pipelines) :
         /\ (fut[i].state = "FINISHED" /\ ~fut[i].raised) =>
                fut[i].result.status # "None"
         /\ mainpc = "done" => results[i].status # "None"

\* the rerun without missing-value preservation returned buggy and main
\* stored it
C6_Witness ==
    /\ mainpc = "done"
    /\ Len(results) = 1
    /\ results[1].status = "buggy"
    /\ results[1].preserve_missing_values = "False"

\* C7: in a written summary the counts of buggy, error, interrupted and
\* skipped entries and the number of not_buggy entries of all_results add
\* up to total_pipelines_expected.
C7_CountsSumToTotal ==
    summary.written =>
        summary.total_buggy_pipelines
          + Cardinality({k \in 1..Len(summary.all_results) :
                            summary.all_results[k].status = "not_buggy"})
          + summary.total_errors
          + summary.total_interrupted
          + summary.total_skipped
        = summary.total_pipelines_expected

\* a summary of two WorkItems, one buggy and one filled in as skipped
C7_Witness ==
    /\ summary.written
    /\ summary.total_pipelines_expected = 2
    /\ summary.total_buggy_pipelines = 1
    /\ summary.total_skipped = 1

\* C8: once the signal handler has returned, a run that the service accepted,
\* that is still in progress and that its worker gave up as INTERRUPTED has
\* had a cancel request issued for its cache id.
C8_AbandonedRunCancelled ==
    \A i \in Items :
        (/\ hpc = "idle"
         /\ fut[i].state = "FINISHED"
         /\ fut[i].result.pipeline_execution_status = "INTERRUPTED"
         /\ runs[fut[i].result.cache_id] = "SENT")
        => fut[i].result.cache_id \in cancel_requests

\* C9: once the flag is set while the WorkItems are being processed, the
\* summary is eventually written.
C9_SummaryEventuallyWritten ==
    [](shutdown_event /\ mainpc \in {"submit", "wait", "exit"}
          => <>summary.written)

\* C10: an execution of main that has ended, normally, after an interrupt or
\* on a failed load, has written the summary.
C10_SummaryAlwaysWritten ==
    mainpc \in {"done", "abort"} => summary.written

\* C11: failure isolation.  In a run without interrupt, a WorkItem whose
\* comparison met an exception (the download or the parse of a file raised)
\* is recorded as error with a message for it, and every slot describes its
\* own WorkItem.
C11_ComparisonFailureIsError ==
    (mainpc = "done" /\ ~shutdown_event) =>
        \A i \in 1..Len(results) :
            /\ results[i].pipeline_name = pipelines[i].pipeline_name
            /\ (\E k \in 1..Len(results[i].comparison.detailed_differences) :
                   results[i].comparison.detailed_differences[k].error
                       = "exception")
               => (results[i].status = "error" /\ results[i].errors # <<>>)

\* C12: reuse idempotence.  A worker whose WorkItem has objects in its test
\* location is never about to submit a run, submitting, registering or
\* polling one; and a result marked as reused carries the reuse sentinel as
\* cache_id and the execution status SUCCESS.
C12_NoSubmitWhenOutputExists ==
    /\ \A w \in Workers :
         wk[w].pc \in {"submit", "register", "poll", "poll_exc", "blocked"}
            => ~test_output[wk[w].idx]
    /\ \A i \in Items :
         fut[i].result.pipeline_reused_existing = "True" =>
            /\ fut[i].result.cache_id = REUSED_EXISTING_OUTPUT
            /\ fut[i].result.pipeline_execution_status = "SUCCESS"

\* C13: checksum short-circuit.  A file whose two etags are equal gets an
\* entry with etags_match true and without cell_differences_count,
\* headers_match or comparison_error; files_with_differences counts the
\* files with different etags only, with at most one detailed comparison
\* each; and a worker is inside the cell-level comparison (download, parse,
\* headers, rows) only for a file whose etags differ.
C13_ChecksumShortCircuit ==
    /\ \A w \in Workers :
         LET inside == wk[w].pc \in {"cf_detail", "cc_start", "dl_new",
                           "rd_new", "dl_orig", "rd_orig", "cc_exc", "cc_hdr",
                           "cc_row", "cc_pre_extra", "cc_extra"}
             c == wk[w].comparison
             differ == {k \in 1..Len(c.file_comparisons) :
                           c.file_comparisons[k].new_etag
                               # c.file_comparisons[k].original_etag}
         IN  /\ inside => wk[w].file_comparison.new_etag
                              # wk[w].file_comparison.original_etag
             /\ c.files_with_differences
                    = Cardinality(differ) + (IF inside THEN 1 ELSE 0)
             /\ Len(c.detailed_differences) <= Cardinality(differ)
    /\ \A i \in Items, w \in Workers :
         LET fcs == fut[i].result.comparison.file_comparisons
                      \o wk[w].comparison.file_comparisons
         IN  \A k \in 1..Len(fcs) :
               fcs[k].new_etag = fcs[k].original_etag =>
                  /\ fcs[k].etags_match
                  /\ fcs[k].cell_differences_count = -1
                  /\ fcs[k].headers_match = "absent"
                  /\ fcs[k].comparison_error = "absent"

\* a comparison of two files, the first with equal etags, the second with
\* different etags and compared cell by cell
C13_Witness ==
    LET c == fut[1].result.comparison IN
    /\ fut[1].state = "FINISHED"
    /\ Len(c.file_comparisons) = 2
    /\ c.file_comparisons[1].etags_match
    /\ ~c.file_comparisons[2].etags_match
    /\ c.file_comparisons[2].cell_differences_count >= 1
    /\ c.files_with_differences = 1
    /\ Len(c.detailed_differences) = 1

\* C14: header-mismatch precedence.  A per-file result with headers_match
\* false has no cell difference and the error "Headers do not match"; and a
\* returned result whose comparison was not cut as a whole and contains such
\* a file has status error and is_buggy None, whatever its other files show.
C14_HeaderMismatchIsError ==
    /\ \A i \in Items, w \in Workers :
         LET dd == fut[i].result.comparison.detailed_differences
                     \o wk[w].comparison.detailed_differences
         IN  \A k \in 1..Len(dd) :
               dd[k].headers_match = "False" =>
                  /\ dd[k].cell_differences = 0
                  /\ dd[k].rows_compared = 0
                  /\ dd[k].error = "Headers do not match"
    /\ \A i \in Items :
         LET r == fut[i].result IN
         (/\ fut[i].state = "FINISHED"
          /\ r.comparison.present
          /\ r.comparison.error # INTERRUPT_MARKER
          /\ \E k \in 1..Len(r.comparison.detailed_differences) :
                r.comparison.detailed_differences[k].headers_match = "False")
         => (r.status = "error" /\ r.is_buggy = "None")

\* a WorkItem with two files, one with cell differences and one with
\* different headers, recorded as error
C14_Witness ==
    LET r == fut[1].result IN
    /\ fut[1].state = "FINISHED"
    /\ r.status = "error"
    /\ Len(r.comparison.detailed_differences) = 2
    /\ r.comparison.detailed_differences[1].total_differences >= 1
    /\ r.comparison.detailed_differences[2].headers_match = "False"
    /\ r.comparison.detailed_differences[2].rows_total >= 1
    /\ ~shutdown_event

\* C15 as stated: a comparison with matching headers that ran to its end on
\* a new file of n rows and an original of m rows, n # m, has exactly
\* |n - m| extra-row entries.
C15_OneEntryPerExtraRow ==
    \A i \in Items, w \in Workers :
      LET dd == fut[i].result.comparison.detailed_differences
                  \o wk[w].comparison.detailed_differences
      IN  \A k \in 1..Len(dd) :
            LET n == dd[k].new_shape[1]
                m == dd[k].original_shape[1]
            IN  (dd[k].headers_match = "True" /\ dd[k].error = "None"
                    /\ n # m)
                => dd[k].row_not_in_original + dd[k].row_not_in_new
                      = Max(n, m) - Min(n, m)

\* C15, amended: such a comparison has one extra-row entry per cell of each
\* extra row, |n - m| times the number of columns, all against
\* ROW_NOT_IN_ORIGINAL when the new file is longer and all against
\* ROW_NOT_IN_NEW when the original is longer, in addition to the cell diffs
\* of the first min(n, m) rows; every row was visited.
C15_OneEntryPerExtraCell ==
    \A i \in Items, w \in Workers :
      LET dd == fut[i].result.comparison.detailed_differences
                  \o wk[w].comparison.detailed_differences
      IN  \A k \in 1..Len(dd) :
            LET n == dd[k].new_shape[1]
                m == dd[k].original_shape[1]
                cols == dd[k].new_shape[2]
                overlap == dd[k].cell_differences - dd[k].row_not_in_original
                              - dd[k].row_not_in_new
            IN  (dd[k].headers_match = "True" /\ dd[k].error = "None") =>
                  /\ dd[k].row_not_in_original
                        = (IF n > m THEN (n - m) * cols ELSE 0)
                  /\ dd[k].row_not_in_new
                        = (IF m > n THEN (m - n) * cols ELSE 0)
                  /\ overlap >= 0
                  /\ overlap <= Min(n, m) * cols
                  /\ dd[k].rows_compared = Max(n, m)
                  /\ dd[k].total_differences = dd[k].cell_differences

\* a one-row new file against a two-row original of MaxCols columns, with a
\* cell diff in the common row
C15_Witness ==
    \E w \in Workers :
      \E k \in 1..Len(wk[w].comparison.detailed_differences) :
        LET d == wk[w].comparison.detailed_differences[k] IN
        /\ d.error = "None"
        /\ d.new_shape = <<1, MaxCols>>
        /\ d.original_shape = <<2, MaxCols>>
        /\ d.row_not_in_new = MaxCols
        /\ d.total_differences > MaxCols

\* C16: retry bound.  A submit whose POST fails on every attempt makes
\* exactly MAX_RETRIES attempts and raises; one whose first k - 1 attempts
\* fail, k <= MAX_RETRIES, makes exactly k attempts and does not raise;
\* retry_request sleeps once between two consecutive attempts.  A submit that
\* raised started no run and its WorkItem is returned as error with the
\* message of the exception.
C16_RetryBound ==
    \A i \in Items, pmv \in BOOLEAN :
      LET cid == CacheId(i, pmv)
          c == submit_calls[cid]
      IN  c.attempts > 0 =>
            /\ c.attempts <= MAX_RETRIES
            /\ c.sleeps = c.attempts - 1
            /\ c.failing >= MAX_RETRIES =>
                  (c.raised /\ c.attempts = MAX_RETRIES)
            /\ c.failing < MAX_RETRIES =>
                  (~c.raised /\ c.attempts = c.failing + 1)
            /\ c.raised =>
                  /\ runs[cid] = "none"
                  /\ fut[i].state = "FINISHED"
                  /\ fut[i].result.status = "error"
                  /\ fut[i].result.errors # <<>>
                  /\ fut[i].result.errors[Len(fut[i].result.errors)]
                        = "HTTP error"

\* a submit whose POST failed more than MAX_RETRIES times in a row: given up
\* after the attempt MAX_RETRIES, the WorkItem returned as error
C16_Witness ==
    /\ submit_calls[CacheId(1, TRUE)].failing = MAX_RETRIES + 1
    /\ submit_calls[CacheId(1, TRUE)].attempts = MAX_RETRIES
    /\ submit_calls[CacheId(1, TRUE)].raised
    /\ fut[1].result.status = "error"

\* C17 as stated: a submit answered with an application-level failure has
\* made exactly one request, started and registered no run, was followed by
\* no poll and no cancel request, and its WorkItem is returned as error.
C17_RejectedAfterOneRequest ==
    \A i \in Items, pmv \in BOOLEAN :
      LET cid == CacheId(i, pmv)
          c == submit_calls[cid]
      IN  c.response = "rejected" =>
            /\ c.attempts = 1
            /\ runs[cid] = "none"
            /\ fut[i].state = "FINISHED"
            /\ fut[i].result.status = "error"

\* C17, amended: the response with the application-level failure is the last
\* request of the submit, the only one unless attempts before it failed on
\* transport and were retried; no run is started or registered, no poll and
\* no cancel request follows, and the WorkItem is returned as error with
\* is_buggy None and the message of the failure.
C17_RejectedIsTerminal ==
    \A i \in Items, pmv \in BOOLEAN :
      LET cid == CacheId(i, pmv)
          c == submit_calls[cid]
          r == fut[i].result
      IN  c.response = "rejected" =>
            /\ ~c.raised
            /\ c.attempts = c.failing + 1
            /\ runs[cid] = "none"
            /\ \A k \in 1..Len(active_pipelines) :
                  active_pipelines[k].cache_id # cid
            /\ cid \notin cancel_requests
            /\ fut[i].state = "FINISHED"
            /\ r.status = "error"
            /\ r.is_buggy = "None"
            /\ r.cache_id = 0
            /\ r.pipeline_execution_status = "absent"
            /\ r.errors[Len(r.errors)] = "Pipeline submission failed"

\* a submit rejected by the service at its first attempt
C17_Witness ==
    /\ submit_calls[CacheId(1, TRUE)].response = "rejected"
    /\ submit_calls[CacheId(1, TRUE)].attempts = 1
    /\ fut[1].result.status = "error"
    /\ mainpc = "done"

ValidationErrors ==
    {validate_and_modify_pipeline_steps(steps) : steps \in StepLists} \ {"ok"}

\* C18: a WorkItem whose steps have no dump step, several dump steps or a
\* dump step that is not the last one is returned as error (is_buggy None,
\* the message of the validation last) by the entry that validated it, with
\* no worker left on it: nothing was submitted for it, no run of it exists,
\* is registered or was asked to be cancelled, and it never reached the
\* check of the test location (no reuse, no comparison).
C18_StructuralFailureFailsFast ==
    \A i \in Items :
      validation[i] \in ValidationErrors =>
        /\ fut[i].state = "FINISHED"
        /\ ~fut[i].raised
        /\ fut[i].result.status = "error"
        /\ fut[i].result.is_buggy = "None"
        /\ fut[i].result.errors = <<validation[i]>>
        /\ fut[i].result.cache_id = 0
        /\ fut[i].result.pipeline_reused_existing = "absent"
        /\ fut[i].result.comparison = NoComparison
        /\ \A w \in Workers : wk[w].idx # i
        /\ \A pmv \in BOOLEAN :
              /\ submit_calls[CacheId(i, pmv)] = NoCall
              /\ runs[CacheId(i, pmv)] = "none"
              /\ CacheId(i, pmv) \notin cancel_requests
              /\ \A k \in 1..Len(active_pipelines) :
                    active_pipelines[k].cache_id # CacheId(i, pmv)

\* a WorkItem without a dump step, recorded as error in the summary
C18_Witness ==
    /\ mainpc = "done"
    /\ validation[1] = "No dump_to_s3 step found"
    /\ Len(results) = 1
    /\ results[1].status = "error"
    /\ summary.written

\* nothing of a run has happened: no task list, no result slot, no Future,
\* no worker on an item, no submission, no run, no cancel request, no
\* validated spec, no summary
NothingDispatched ==
    /\ pipelines = <<>>
    /\ results = <<>>
    /\ completed_count = 0
    /\ \A i \in Items : fut[i] = NoFuture /\ validation[i] = "none"
    /\ qhead = 1
    /\ \A w \in Workers : wk[w] = IdleWorker
    /\ active_pipelines = <<>>
    /\ \A c \in CacheIds : runs[c] = "none" /\ submit_calls[c] = NoCall
    /\ cancel_requests = {}
    /\ test_output = <<>>
    /\ ~summary.written

\* C19: when the load of the task list raises, main has returned for good
\* with nothing dispatched: no WorkItem exists or was handed to a worker, no
\* call went to the storage or the execution service for one, and no
\* per-item result or summary was produced, then or later.
C19_LoadFailureIsFatal ==
    [][/\ mainpc = "abort" => mainpc' = "abort"
       /\ mainpc' = "abort" => NothingDispatched']_vars

\* the load has failed and a signal was handled afterwards
C19_Witness ==
    /\ mainpc = "abort"
    /\ shutdown_event
    /\ hpc = "idle"

\* some cell diff of a comparison that was not cut short has an empty
\* original value and a non-empty new value
MissingValueDiff(comparison) ==
    \E k \in 1..Len(comparison.detailed_differences) :
        /\ comparison.detailed_differences[k].error # INTERRUPT_MARKER
        /\ comparison.detailed_differences[k].missing_value_diff

\* C20: process_pipeline is entered at most twice for a WorkItem, the first
\* time with preserve_missing_values true and the second time with it false;
\* the second entry is made only by the first, after its comparison ran to
\* the end with a missing-value cell diff and with the flag clear; and the
\* step that ends the second entry hands the WorkItem back, whatever its
\* comparison shows.
C20_RerunIsSingleLevel ==
    [][\A w \in Workers :
         /\ wk'[w].entered \in 0..2
         /\ wk'[w].entered = 1 => wk'[w].pmv
         /\ wk'[w].entered = 2 => ~wk'[w].pmv
         /\ (wk'[w].entered = 2 /\ wk[w].entered # 2) =>
               /\ wk[w].entered = 1
               /\ wk[w].pc = "post_cmp"
               /\ wk'[w].idx = wk[w].idx
               /\ wk[w].comparison.error # INTERRUPT_MARKER
               /\ MissingValueDiff(wk[w].comparison)
               /\ ~shutdown_event
         /\ (wk[w].entered = 2 /\ wk[w].pc = "post_cmp" /\ wk'[w] # wk[w]) =>
               /\ wk'[w].entered = 0
               /\ fut'[wk[w].idx].state = "FINISHED"]_vars

\* the comparison of the second entry shows a missing-value cell diff again
C20_Witness ==
    \E w \in Workers :
        /\ wk[w].entered = 2
        /\ wk[w].pc = "post_cmp"
        /\ ~shutdown_event
        /\ MissingValueDiff(wk[w].comparison)

\* the trace a cancellation checkpoint leaves in the result when it sees the
\* flag: the interrupt message of the check before the submit (976-981) or
\* of the poll (997-1005), the marker on the comparison (before the
\* comparison, before a file), the skip note on a file's entry (before its
\* detailed comparison), the marker on a detailed comparison (a download or
\* a row checkpoint)
CheckpointSawFlag(r) ==
    \/ \E k \in 1..Len(r.errors) :
          r.errors[k] \in
              {"Processing interrupted before pipeline execution",
               "Pipeline returned error: Processing interrupted by user"}
    \/ Interrupted(r.comparison)
    \/ \E k \in 1..Len(r.comparison.file_comparisons) :
          r.comparison.file_comparisons[k].comparison_error
              = "Detailed comparison skipped due to interrupt"
    \/ \E k \in 1..Len(r.comparison.detailed_differences) :
          Interrupted(r.comparison.detailed_differences[k])

\* C21: a WorkItem one of whose cancellation checkpoints saw the flag set is
\* returned with status interrupted, never buggy, not_buggy or error.
C21_FirstObservationWins ==
    \A i \in Items :
      (fut[i].state = "FINISHED" /\ ~fut[i].raised
         /\ CheckpointSawFlag(fut[i].result))
        => fut[i].result.status = "interrupted"

\* C22: the active-run registry.  A WorkItem has at most one run in progress
\* on the service; a worker thread has at most one entry; an entry is that
\* of a worker inside wait_for_pipeline_completion for the cache id of the
\* entry, and a worker in its poll loop has one; with no worker inside the
\* poll the registry is empty.
C22_RegistryInvariant ==
    /\ \A i \in Items :
          ~(runs[CacheId(i, TRUE)] = "SENT" /\ runs[CacheId(i, FALSE)] = "SENT")
    /\ \A k, l \in 1..Len(active_pipelines) :
          active_pipelines[k].thread_id = active_pipelines[l].thread_id
             => k = l
    /\ \A k \in 1..Len(active_pipelines) :
          LET e == active_pipelines[k] IN
          /\ wk[e.thread_id].pc \in {"poll", "poll_exc", "blocked"}
          /\ wk[e.thread_id].result.cache_id = e.cache_id
          /\ e.cache_id = CacheId(wk[e.thread_id].idx, wk[e.thread_id].pmv)
    /\ \A w \in Workers :
          wk[w].pc \in {"poll", "poll_exc"} =>
             \E k \in 1..Len(active_pipelines) :
                active_pipelines[k].thread_id = w
    /\ (\A w \in Workers : wk[w].pc = "idle") => active_pipelines = <<>>

\* both workers have left the poll, one with SUCCESS and one with a failure
\* status, after both of them were registered
C22_Witness ==
    /\ active_pipelines = <<>>
    /\ runs[CacheId(1, TRUE)] = "SUCCESS"
    /\ runs[CacheId(2, TRUE)] = "FAILED"
    /\ \A w \in Workers : wk[w].pc = "idle"

\* C23: mutual exclusion.  At most one thread is inside a block of s3_lock,
\* where every call on s3_client is made, and at most one thread -- a worker
\* or the main thread in signal_handler -- is inside a block of
\* active_pipelines_lock, where every access to the registry is made; no
\* thread is inside both, so none waits for one lock while it holds the
\* other.
C23_MutualExclusion ==
    /\ Cardinality(s3_lock) <= 1
    /\ Cardinality(active_pipelines_lock) <= 1
    /\ s3_lock \cap active_pipelines_lock = {}
    /\ \A w \in s3_lock :
          wk[w].pc \in {"start", "reuse", "cf_start", "cf_file",
                        "dl_new", "dl_orig"}
    /\ \A w \in active_pipelines_lock \ {MainThread} : wk[w].pc = "register"
    /\ MainThread \in active_pipelines_lock =>
          (hpc \in {"logging", "copying"}
             \/ \E k \in 1..Len(hstack) :
                   hstack[k].hpc \in {"logging", "copying"})

\* a worker waits to register its run while signal_handler is inside its
\* block of active_pipelines_lock, and the other worker is inside a call on
\* s3_client
C23_Witness ==
    /\ active_pipelines_lock = {MainThread}
    /\ \E w \in Workers : wk[w].pc = "register"
    /\ \E w \in Workers : s3_lock = {w}

\* signal_handler waits for active_pipelines_lock while an invocation of it
\* that it interrupted is inside a block of that lock: the block is never
\* left, and neither the handler nor main takes another step
HandlerWaitsForItself ==
    /\ hpc \in {"snapshot", "relock"}
    /\ MainThread \in active_pipelines_lock

\* C26: cancellation is idempotent.  However many times and whenever the
\* signal is delivered, the flag stays set once set, and no invocation of
\* signal_handler waits for active_pipelines_lock while the main thread
\* itself holds it, so every invocation returns and main goes on to write
\* the summary.
C26_SignalIsIdempotent ==
    /\ signals > 0 => shutdown_event
    /\ ~HandlerWaitsForItself

\* the worker, if any, that is inside the call of process_pipeline which
\* submitted the run cid of WorkItem i
RunWorkers(i, cid) ==
    {w \in Workers : wk[w].idx = i /\ wk[w].result.cache_id = cid}

\* C24 as stated: a run whose submit was accepted is polled while the service
\* reports SENT and the flag is clear, and ends in exactly one of SUCCESS,
\* SUCCESS with error, FAILED or INTERRUPTED (the flag was seen set); after
\* that it is polled no more, and SUCCESS with error and FAILED make the
\* WorkItem error without a comparison.
C24_RunEndsInTerminalOutcome ==
    \A i \in Items, pmv \in BOOLEAN :
      LET cid == CacheId(i, pmv)
          r == fut[i].result
      IN  submit_calls[cid].response = "accepted" =>
            /\ \A w \in RunWorkers(i, cid) :
                  /\ wk[w].pc \in {"register", "poll", "poll_exc", "blocked"}
                        <=> wk[w].result.pipeline_execution_status = "absent"
                  /\ wk[w].pc \notin {"register", "poll", "poll_exc", "blocked"}
                        => wk[w].result.pipeline_execution_status = "SUCCESS"
            /\ (fut[i].state = "FINISHED" /\ r.cache_id = cid) =>
                  /\ r.pipeline_execution_status \in
                        {"SUCCESS", "ERROR_WITH_SUCCESS", "FAILED",
                         "INTERRUPTED"}
                  /\ r.pipeline_execution_status = "INTERRUPTED" =>
                        (shutdown_event /\ r.status = "interrupted")
                  /\ r.pipeline_execution_status \in
                        {"ERROR_WITH_SUCCESS", "FAILED"} =>
                        (r.status = "error" /\ r.comparison = NoComparison)

\* the rows compare_csv_contents of worker w has compared so far in wks: those
\* of the call in progress, or of the call that has just returned
RowsDone(wks, w, returned) ==
    IF returned
    THEN wks[w].comparison.detailed_differences[
            Len(wks[w].comparison.detailed_differences)].rows_compared
    ELSE wks[w].det.rows_compared

\* C25 as stated: once the flag is set while compare_csv_contents iterates
\* over rows, no further row is compared: the step at the next row boundary
\* returns the partial result with the interrupt marker.
C25_StopsAtNextRow ==
    [][\A w \in Workers :
         (/\ shutdown_event
          /\ wk[w].pc \in {"cc_row", "cc_pre_extra", "cc_extra"}
          /\ wk'[w] # wk[w])
         => LET dd == wk'[w].comparison.detailed_differences IN
            /\ Len(dd) = Len(wk[w].comparison.detailed_differences) + 1
            /\ dd[Len(dd)].error = INTERRUPT_MARKER
            /\ dd[Len(dd)].rows_compared = wk[w].det.rows_compared]_vars

\* C25, amended: the flag is read at the start of every row whose index is a
\* multiple of CHECK_EVERY and between the overlapping and the extra rows.
\* With the flag set, a step at such a checkpoint compares nothing and
\* returns the rows compared so far with the interrupt marker and the count
\* of the differences found; a step at any other row compares that row.
C25_StopsAtNextCheckpoint ==
    [][\A w \in Workers :
         (/\ shutdown_event
          /\ wk[w].pc \in {"cc_row", "cc_pre_extra", "cc_extra"}
          /\ wk'[w] # wk[w])
         => LET dd == wk'[w].comparison.detailed_differences
                returned ==
                    Len(dd) = Len(wk[w].comparison.detailed_differences) + 1
            IN
            IF wk[w].pc = "cc_pre_extra"
                  \/ wk[w].cc.row_idx % CHECK_EVERY = 0
            THEN /\ returned
                 /\ dd[Len(dd)].error = INTERRUPT_MARKER
                 /\ dd[Len(dd)].flag_at_return
                 /\ dd[Len(dd)].rows_compared = wk[w].det.rows_compared
                 /\ dd[Len(dd)].rows_compared < dd[Len(dd)].rows_total
                       \/ dd[Len(dd)].rows_total = wk[w].cc.row_idx
                 /\ dd[Len(dd)].total_differences
                       = wk[w].det.cell_differences
            ELSE /\ RowsDone(wk', w, returned) = wk[w].det.rows_compared + 1
                 /\ returned => dd[Len(dd)].error # INTERRUPT_MARKER]_vars

\* the flag was set while the only overlapping row was compared: the check
\* before the extra rows returned that row's result with the marker
C25_Witness ==
    /\ shutdown_event
    /\ \E w \in Workers :
         LET dd == wk[w].comparison.detailed_differences IN
         /\ Len(dd) = 1
         /\ dd[1].error = INTERRUPT_MARKER
         /\ dd[1].rows_compared = 1
         /\ dd[1].rows_total = 2
         /\ dd[1].total_differences = dd[1].cell_differences

\* C27: cancel_pipeline is best-effort.  Every call makes at most
\* max_cancel_retries DELETE attempts, an attempt follows another only after
\* a transport error, the attempt that gets a response (200 or not) is the
\* last, and the call never raises.  A step of the handler's cancel loop
\* issues the request for the next copied run and goes on to the one after
\* it (after the last one the handler returns, to the invocation it had
\* interrupted if there is one), whatever the call met, and changes no
\* future, no result and no worker.
C27_CancelIsBestEffort ==
    [][/\ \A c \in CacheIds :
            LET k == cancel_calls'[c] IN
            /\ k.attempts <= max_cancel_retries
            /\ ~k.raised
            /\ k.transport \in {k.attempts - 1, k.attempts}
            /\ k.response # "none" => k.attempts = k.transport + 1
            /\ k.transport = k.attempts =>
                  (k.attempts \in {0, max_cancel_retries}
                   /\ k.response = "none")
            /\ c \in cancel_requests' <=> k.attempts >= 1
       /\ (/\ hpc = "cancel"
           /\ signals' = signals
           /\ <<hpc, hsnap, hstack>>' # <<hpc, hsnap, hstack>>)
          => /\ cancel_requests' = cancel_requests \cup {Head(hsnap)}
             /\ cancel_calls'[Head(hsnap)].attempts >= 1
             /\ IF Tail(hsnap) # <<>>
                THEN /\ hpc' = "cancel"
                     /\ hsnap' = Tail(hsnap)
                     /\ hstack' = hstack
                ELSE IF hstack = <<>>
                THEN hpc' = "idle"
                ELSE /\ hpc' = Head(hstack).hpc
                     /\ hsnap' = Head(hstack).hsnap
                     /\ hstack' = Tail(hstack)
             /\ fut' = fut
             /\ results' = results
             /\ wk' = wk
             /\ active_pipelines' = active_pipelines]_vars

\* the handler has returned after two cancel calls: one gave up after
\* max_cancel_retries transport errors, the other got a response that was
\* not 200 at its second attempt
C27_Witness ==
    /\ hpc = "idle"
    /\ \E c1, c2 \in CacheIds :
         /\ c1 # c2
         /\ cancel_calls[c1] = [attempts |-> max_cancel_retries,
                                transport |-> max_cancel_retries,
                                response |-> "none", raised |-> FALSE]
         /\ cancel_calls[c2] = [attempts |-> 2, transport |-> 1,
                                response |-> "500", raised |-> FALSE]

\* worker w waits for a run it submitted that the service has in progress:
\* the run is writing to the test location of w's WorkItem
RunWrites(w) ==
    /\ wk[w].pc \in {"register", "poll", "poll_exc", "blocked"}
    /\ wk[w].result.cache_id \in CacheIds
    /\ runs[wk[w].result.cache_id] = "SENT"

\* worker w is at the reuse check or inside the comparison of its WorkItem:
\* it lists or downloads the objects of the test location
ReadsTestLocation(w) ==
    wk[w].pc \in {"reuse", "cf_start", "cf_file", "cf_detail", "cc_start",
                  "dl_new", "rd_new"}

\* C28: test locations are isolated between concurrently processed
\* WorkItems: no two runs in progress at the same time write to the same test
\* location, and no worker's reuse check or comparison reads a test location
\* that the run of another worker is still writing, whatever titles the task
\* list holds.
C28_TestLocationsIsolated ==
    \A w1, w2 \in Workers :
      (/\ w1 # w2
       /\ wk[w1].idx # 0
       /\ wk[w2].idx # 0
       /\ Title(w1) = Title(w2))
      => /\ ~(RunWrites(w1) /\ RunWrites(w2))
         /\ ~(RunWrites(w1) /\ ReadsTestLocation(w2))

\* C29: at most one run is submitted per WorkItem unless a listing of the
\* reuse check fails.  The second entry of process_pipeline reaches its reuse
\* check only with objects in the test location; when its listing succeeds
\* it takes the reuse branch, submitting nothing; a run with
\* preserve_missing_values false is submitted only after a listing that
\* raised; and the result of a second entry that reused the output carries
\* pipeline_reused_existing true, the reuse sentinel as cache_id and
\* preserve_missing_values false, with the comparison of that output.
C29_RerunReusesFirstOutput ==
    [][\A w \in Workers :
         LET i == wk[w].idx
             r == fut'[i].result
         IN
         /\ (wk'[w].entered = 2 /\ wk'[w].pc = "reuse") =>
               test_output'[pipelines'[wk'[w].idx].pipeline_spec]
         /\ (wk[w].entered = 2 /\ wk[w].pc = "reuse" /\ wk'[w] # wk[w]) =>
               \/ /\ wk'[w].pc = "cf_start"
                  /\ wk'[w].result.pipeline_reused_existing = "True"
                  /\ wk'[w].result.cache_id = REUSED_EXISTING_OUTPUT
                  /\ UNCHANGED <<runs, submit_calls>>
               \/ /\ wk'[w].pc = "submit"
                  /\ wk'[w].listing_missed
               \/ /\ shutdown_event
                  /\ wk'[w].pc = "idle"
                  /\ r.status = "interrupted"
                  /\ UNCHANGED <<runs, submit_calls>>
         /\ (i # 0 /\ submit_calls'[CacheId(i, FALSE)]
                         # submit_calls[CacheId(i, FALSE)]) =>
               wk[w].listing_missed
         /\ (/\ wk[w].entered = 2
             /\ wk[w].pc = "post_cmp"
             /\ wk[w].result.pipeline_reused_existing = "True"
             /\ ~Interrupted(wk[w].comparison)
             /\ wk'[w] # wk[w]) =>
               /\ fut'[i].state = "FINISHED"
               /\ r.pipeline_reused_existing = "True"
               /\ r.cache_id = REUSED_EXISTING_OUTPUT
               /\ r.preserve_missing_values = "False"
               /\ r.comparison = wk[w].comparison
               /\ r.status \in {"buggy", "not_buggy", "error", "interrupted"}
               /\ submit_calls[CacheId(i, FALSE)] = NoCall]_vars

\* a WorkItem whose first entry submitted a run and whose second entry
\* reused the output of that run: one submission in all
C29_Witness ==
    /\ fut[1].state = "FINISHED"
    /\ fut[1].result.preserve_missing_values = "False"
    /\ fut[1].result.pipeline_reused_existing = "True"
    /\ fut[1].result.cache_id = REUSED_EXISTING_OUTPUT
    /\ submit_calls[CacheId(1, TRUE)].response = "accepted"
    /\ runs[CacheId(1, TRUE)] = "SUCCESS"
    /\ submit_calls[CacheId(1, FALSE)] = NoCall
    /\ runs[CacheId(1, FALSE)] = "none"

\* the comparison ran to the end: neither it nor the cell comparison of one
\* of its files carries the interrupt marker, and no file has a header
\* mismatch
CompletedComparison(c) ==
    /\ c.present
    /\ ~Interrupted(c)
    /\ \A k \in 1..Len(c.detailed_differences) :
          /\ ~Interrupted(c.detailed_differences[k])
          /\ c.detailed_differences[k].headers_match # "False"

====
